---- MODULE Spec2Model ----
(***************************************************************************)
(* Model of the Ludo rules engine of src/ludo_game.py (class LudoGame with *)
(* its Player and Piece records).  One action per engine operation; the    *)
(* events an operation emits and the value it returns are kept in the      *)
(* variables events and ret so that properties can speak about them.       *)
(***************************************************************************)
EXTENDS Integers, Sequences, FiniteSets, TLC

VARIABLES
    players,         \* LudoGame.players: the colours present, in insertion order
    pieces,          \* pieces[c][i]: the Piece record of player c, index i
    home_count,      \* Player.home_count per colour
    current_player,  \* LudoGame.current_player (NoPlayer is None)
    game_state,      \* LudoGame.game_state
    dice_value,      \* LudoGame.dice_value
    call,            \* the operation called last and its arguments
    ret,             \* what that call returned (or that it raised)
    events,          \* the events that call emitted, in emission order
    event_listeners, \* LudoGame.event_listeners: the listeners, in subscription order
    received,        \* the listener calls that call made, in the order made
    game_overs,      \* GAME_OVER events emitted since construction or the last reset_game
    scenario,        \* which opening of Scenarios this run replays
    step,            \* how many operations of the opening have been replayed
    budget           \* operations still allowed after the opening

game == <<players, pieces, home_count, current_player, game_state, dice_value>>
io == <<call, ret, events>>
harness == <<scenario, step, budget>>
vars == <<players, pieces, home_count, current_player, game_state, dice_value,
          call, ret, events, event_listeners, received, game_overs,
          scenario, step, budget>>

-----------------------------------------------------------------------------
(* Enumerations and fixed tables *)

RED == "red"
GREEN == "green"
YELLOW == "yellow"
BLUE == "blue"
NoPlayer == "none"

WAITING_FOR_PLAYERS == "waiting_for_players"
ROLLING_DICE == "rolling_dice"
MOVING_PIECE == "moving_piece"
GAME_OVER == "game_over"
GameStates == {WAITING_FOR_PLAYERS, ROLLING_DICE, MOVING_PIECE, GAME_OVER}

GAME_STARTED == "game_started"
DICE_ROLLED == "dice_rolled"
PIECE_MOVED == "piece_moved"
PLAYER_TURN_CHANGED == "player_turn_changed"
EV_GAME_OVER == "game_over"
INVALID_MOVE == "invalid_move"
PIECE_CAPTURED == "piece_captured"
PIECE_HOME == "piece_home"

\* The callables the drivers subscribe: CLIGame._handle_event and the test
\* suite's event_listener
HANDLE_EVENT == "_handle_event"
EVENT_LISTENER == "event_listener"
Listeners == {HANDLE_EVENT, EVENT_LISTENER}

EventTypes ==
    {GAME_STARTED, DICE_ROLLED, PIECE_MOVED, PLAYER_TURN_CHANGED, EV_GAME_OVER,
     INVALID_MOVE, PIECE_CAPTURED, PIECE_HOME}

\* For each event type t a listener that raises when it is called with an
\* event of type t and returns normally for every other event
RaisingListener == [t \in EventTypes |-> "raises_on_" \o t]

RaisesOn(t) == RaisingListener[t]

\* The call listener(event) of _emit_event raises: nothing in the engine
\* catches it.
raises(l, e) == l = RaisesOn(e.type)

player_order == <<RED, GREEN, YELLOW, BLUE>>
Colors == {RED, GREEN, YELLOW, BLUE}

board_size == 52
NumPieces == 4
HomeBase == -1
HomeStretchLen == 6
\* Variant of safe_positions: GREEN's start cell 13 is left out.
safe_positions_without_13 == {0, 8, 21, 26, 34, 39, 47}

safe_positions == {0, 8, 13, 21, 26, 34, 39, 47}

start_position(c) ==
    CASE c = RED -> 0 [] c = GREEN -> 13 [] c = YELLOW -> 26 [] c = BLUE -> 39

home_position(c) ==
    CASE c = RED -> 50 [] c = GREEN -> 63 [] c = YELLOW -> 76 [] c = BLUE -> 89

home_stretch_positions(c) == home_position(c) .. (home_position(c) + HomeStretchLen - 1)

PieceIndex == 0 .. (NumPieces - 1)

-----------------------------------------------------------------------------
(* Piece and Player *)

NewPiece == [position |-> HomeBase, is_home |-> FALSE, is_safe |-> FALSE]

\* Variant of PieceReset: the is_safe flag is left as it was.
PieceReset_keeps_safe(p) == [p EXCEPT !.position = HomeBase, !.is_home = FALSE]

PieceReset(p) == [p EXCEPT !.position = HomeBase, !.is_home = FALSE, !.is_safe = FALSE]

NewPlayerPieces == [i \in PieceIndex |-> NewPiece]

get_pieces_in_final_home(ps) == {i \in PieceIndex : ps[i].is_home}

\* Variant of has_won: three finished pieces are enough.
has_won_three(ps) == Cardinality(get_pieces_in_final_home(ps)) >= 3

has_won(ps) == Cardinality(get_pieces_in_final_home(ps)) = 4

IsPresent(c) == \E k \in 1..Len(players) : players[k] = c

-----------------------------------------------------------------------------
(* Values kept about the last call *)

Ev(type, player, colors, nums) ==
    [type |-> type, player |-> player, colors |-> colors, nums |-> nums]

Call(op, color, piece) == [op |-> op, color |-> color, piece |-> piece]

\* exc: the call raised (KeyError from the player lookup, or what a listener
\* raised); ok: its boolean result; val: its integer result; moves: the list get_valid_moves returned, as <<piece_id, new_position>>;
\* snap: the dictionary get_game_state returned.
Ret(exc, ok, val, moves, snap) ==
    [exc |-> exc, ok |-> ok, val |-> val, moves |-> moves, snap |-> snap]

RetBool(b) == Ret(FALSE, b, 0, <<>>, <<>>)
RetInt(n) == Ret(FALSE, FALSE, n, <<>>, <<>>)
RetList(l) == Ret(FALSE, FALSE, 0, l, <<>>)
RetNone == Ret(FALSE, FALSE, 0, <<>>, <<>>)
RetKeyError == Ret(TRUE, FALSE, 0, <<>>, <<>>)
\* The exception of a listener leaves the operation through _emit_event.
RetListenerError == Ret(TRUE, FALSE, 0, <<>>, <<>>)

-----------------------------------------------------------------------------
(* Board geometry and move validation: pure functions of the engine state *)

\* Variant of should_enter_home_stretch: no piece ever leaves the track.
should_enter_home_stretch_never(c, p, new_position) == FALSE

\* Variant of should_enter_home_stretch: only a piece that stands before its
\* own start cell, having gone round the board, leaves the track.
should_enter_home_stretch_after_lap(c, p, new_position) ==
    IF new_position < board_size THEN FALSE
    ELSE IF p.position < start_position(c) /\ new_position >= start_position(c) THEN TRUE
    ELSE FALSE

\* LudoGame._should_enter_home_stretch
should_enter_home_stretch(c, p, new_position) ==
    IF new_position < board_size THEN FALSE
    ELSE IF p.position < start_position(c) /\ new_position >= start_position(c) THEN FALSE
    ELSE TRUE

\* Variant of calculate_new_position: the home-stretch cell is computed
\* without taking the board size off.
calculate_new_position_unfolded(c, p, dice) ==
    IF p.is_home THEN p.position
    ELSE IF p.position = HomeBase
         THEN (IF dice = 6 THEN start_position(c) ELSE HomeBase)
    ELSE LET new_pos == p.position + dice IN
         IF should_enter_home_stretch(c, p, new_pos)
         THEN home_position(c) + new_pos
         ELSE IF new_pos >= board_size THEN new_pos - board_size
         ELSE new_pos

\* LudoGame._calculate_new_position
calculate_new_position(c, p, dice) ==
    IF p.is_home THEN p.position
    ELSE IF p.position = HomeBase
         THEN (IF dice = 6 THEN start_position(c) ELSE HomeBase)
    ELSE LET new_pos == p.position + dice IN
         IF should_enter_home_stretch(c, p, new_pos)
         THEN home_position(c) + (new_pos - board_size)
         ELSE IF new_pos >= board_size THEN new_pos - board_size
         ELSE new_pos

\* Variant of is_in_final_home: only the last cell of the home stretch
\* finishes a piece.
is_in_final_home_last_cell(c, p) ==
    p.position = home_position(c) + HomeStretchLen - 1

\* LudoGame._is_in_final_home
is_in_final_home(c, p) ==
    IF p.position < home_position(c) THEN FALSE
    ELSE p.position \in home_stretch_positions(c)

\* Variant of is_valid_move: a piece at base may leave on a 5 as well.
is_valid_move_five(pcs, dice, c, i, new_position) ==
    IF pcs[c][i].is_home THEN FALSE
    ELSE IF pcs[c][i].position = HomeBase THEN dice >= 5
    ELSE ~ \E j \in PieceIndex :
             /\ j # i
             /\ pcs[c][j].position = new_position
             /\ ~ pcs[c][j].is_home

\* Variant of is_valid_move: a piece on the board may land on another
\* unfinished piece of its own colour.
is_valid_move_stacking(pcs, dice, c, i, new_position) ==
    IF pcs[c][i].is_home THEN FALSE
    ELSE IF pcs[c][i].position = HomeBase THEN dice = 6
    ELSE TRUE

\* Variant of is_valid_move: the destination is refused for a finished own
\* piece on it, not for an unfinished one.
is_valid_move_finished_only(pcs, dice, c, i, new_position) ==
    IF pcs[c][i].is_home THEN FALSE
    ELSE IF pcs[c][i].position = HomeBase THEN dice = 6
    ELSE ~ \E j \in PieceIndex :
             /\ j # i
             /\ pcs[c][j].position = new_position
             /\ pcs[c][j].is_home

\* LudoGame._is_valid_move, for piece i of colour c in the piece table pcs
is_valid_move(pcs, dice, c, i, new_position) ==
    IF pcs[c][i].is_home THEN FALSE
    ELSE IF pcs[c][i].position = HomeBase THEN dice = 6
    ELSE ~ \E j \in PieceIndex :
             /\ j # i
             /\ pcs[c][j].position = new_position
             /\ ~ pcs[c][j].is_home

\* The order in which _check_capture visits the pieces: players in insertion
\* order, each player's pieces by index.
ScanOrder(pl) ==
    [n \in 1 .. (NumPieces * Len(pl)) |->
        <<pl[((n - 1) \div NumPieces) + 1], (n - 1) % NumPieces>>]

\* Variant of check_capture: the safe-cell test is inverted.
check_capture_inverted(pl, pcs, mc, mi, position) ==
    IF position \notin safe_positions THEN <<>>
    ELSE LET Hit(ci) == /\ ci # <<mc, mi>>
                        /\ pcs[ci[1]][ci[2]].position = position
                        /\ ~ pcs[ci[1]][ci[2]].is_home
                        /\ ci[1] # mc
             hits == SelectSeq(ScanOrder(pl), Hit)
         IN IF hits = <<>> THEN <<>> ELSE <<hits[1]>>

\* Variant of check_capture: the safe-cell test is left out.
check_capture_everywhere(pl, pcs, mc, mi, position) ==
    LET Hit(ci) == /\ ci # <<mc, mi>>
                   /\ pcs[ci[1]][ci[2]].position = position
                   /\ ~ pcs[ci[1]][ci[2]].is_home
                   /\ ci[1] # mc
        hits == SelectSeq(ScanOrder(pl), Hit)
    IN IF hits = <<>> THEN <<>> ELSE <<hits[1]>>

\* LudoGame._check_capture: <<>> for None, else << <<colour, index>> >> of the
\* first piece found.
check_capture(pl, pcs, mc, mi, position) ==
    IF position \in safe_positions THEN <<>>
    ELSE LET Hit(ci) == /\ ci # <<mc, mi>>
                        /\ pcs[ci[1]][ci[2]].position = position
                        /\ ~ pcs[ci[1]][ci[2]].is_home
                        /\ ci[1] # mc
             hits == SelectSeq(ScanOrder(pl), Hit)
         IN IF hits = <<>> THEN <<>> ELSE <<hits[1]>>

IndexOf(c) == CHOOSE k \in 1..4 : player_order[k] = c

\* Variant of next_player: the colour after cur in player_order, whether it
\* is present and whether it has won or not.
next_player_plain(pl, pcs, cur) == player_order[(IndexOf(cur) % 4) + 1]

\* The colour _next_turn picks: the first one after cur in player_order that
\* is present and has not won; cur itself when the loop comes back round.
next_player(pl, pcs, cur) ==
    LET ci == IndexOf(cur) - 1
        At(k) == player_order[((ci + k) % 4) + 1]
        Ok(k) == /\ \E n \in 1..Len(pl) : pl[n] = At(k)
                 /\ ~ has_won(pcs[At(k)])
        ks == {k \in 1..3 : Ok(k)}
    IN IF ks = {} THEN cur
       ELSE At(CHOOSE k \in ks : \A m \in ks : k <= m)

\* Variant of valid_moves_of: only the first legal move is listed.
valid_moves_of_first(pcs, dice, c) ==
    LET all == [n \in 1..NumPieces |->
                  <<n - 1, calculate_new_position(c, pcs[c][n - 1], dice)>>]
        Keep(m) == is_valid_move(pcs, dice, c, m[1], m[2])
        kept == SelectSeq(all, Keep)
    IN IF kept = <<>> THEN <<>> ELSE <<kept[1]>>

\* LudoGame.get_valid_moves once the turn/phase test and the player lookup
\* have passed: the (piece_id, new_position) pairs in piece order.
valid_moves_of(pcs, dice, c) ==
    LET all == [n \in 1..NumPieces |->
                  <<n - 1, calculate_new_position(c, pcs[c][n - 1], dice)>>]
        Keep(m) == is_valid_move(pcs, dice, c, m[1], m[2])
    IN SelectSeq(all, Keep)

\* Variant of Snapshot: no player is reported as winner.
Snapshot_without_wins ==
    [game_state |-> game_state,
     current_player |-> current_player,
     dice_value |-> dice_value,
     players |-> [k \in 1..Len(players) |->
        [color |-> players[k],
         home_count |-> home_count[players[k]],
         has_won |-> FALSE,
         pieces |-> [n \in 1..NumPieces |->
            [piece_id |-> n - 1,
             position |-> pieces[players[k]][n - 1].position,
             is_home |-> pieces[players[k]][n - 1].is_home,
             is_safe |-> pieces[players[k]][n - 1].is_safe]]]]]

\* LudoGame.get_game_state
Snapshot ==
    [game_state |-> game_state,
     current_player |-> current_player,
     dice_value |-> dice_value,
     players |-> [k \in 1..Len(players) |->
        [color |-> players[k],
         home_count |-> home_count[players[k]],
         has_won |-> has_won(pieces[players[k]]),
         pieces |-> [n \in 1..NumPieces |->
            [piece_id |-> n - 1,
             position |-> pieces[players[k]][n - 1].position,
             is_home |-> pieces[players[k]][n - 1].is_home,
             is_safe |-> pieces[players[k]][n - 1].is_safe]]]]]

-----------------------------------------------------------------------------
(* The engine's operations.  Each one sets call, ret and events. *)

\* Variant of emit_event: the listeners are called last subscribed first.
emit_event_reversed(ls, e) ==
    [k \in 1..Len(ls) |-> [to |-> ls[Len(ls) + 1 - k], event |-> e]]

\* The loop of _emit_event is left at the first listener that raises.
interrupted(ls, e) == \E k \in 1..Len(ls) : raises(ls[k], e)

\* Variant of emit_event: a listener that raises does not keep the listeners
\* after it from being called.
emit_event_to_all(ls, e) == [k \in 1..Len(ls) |-> [to |-> ls[k], event |-> e]]

\* LudoGame._emit_event: one call of each listener, in list order, up to and
\* including the first one that raises
emit_event(ls, e) ==
    LET last == IF interrupted(ls, e)
                THEN CHOOSE k \in 1..Len(ls) :
                        /\ raises(ls[k], e)
                        /\ \A j \in 1..(k - 1) : ~ raises(ls[j], e)
                ELSE Len(ls)
    IN [k \in 1..last |-> [to |-> ls[k], event |-> e]]

\* What a call gives back when its last event evs is emitted just before it
\* returns r: the exception of the listener that raised, if one did.
ReturnAfter(evs, r) ==
    IF \E n \in 1..Len(evs) : interrupted(event_listeners, evs[n])
    THEN RetListenerError
    ELSE r

\* The listener calls an operation makes for the events evs it emits: each
\* event goes through _emit_event at the point where it is emitted.
RECURSIVE Delivered(_, _)
Delivered(ls, evs) ==
    IF evs = <<>> THEN <<>>
    ELSE emit_event(ls, Head(evs)) \o Delivered(ls, Tail(evs))

\* LudoGame.add_event_listener
add_event_listener(l) ==
    /\ call' = Call("add_event_listener", NoPlayer, 0)
    /\ ret' = RetNone
    /\ events' = <<>>
    /\ event_listeners' = Append(event_listeners, l)
    /\ UNCHANGED game

\* Variant of start_game: the first colour to join starts.
start_game_first_joined(pl) ==
    IF Len(pl) # 4
    THEN /\ events' = <<>>
         /\ UNCHANGED <<game_state, current_player>>
    ELSE /\ game_state' = ROLLING_DICE
         /\ current_player' = pl[1]
         /\ events' = <<Ev(GAME_STARTED, pl[1], pl, <<>>)>>

\* LudoGame._start_game, called with the player list pl it finds
start_game(pl) ==
    IF Len(pl) # 4
    THEN /\ events' = <<>>
         /\ UNCHANGED <<game_state, current_player>>
    ELSE /\ game_state' = ROLLING_DICE
         /\ current_player' = RED
         /\ events' = <<Ev(GAME_STARTED, RED, pl, <<>>)>>

\* Variant of add_player: a colour already present gets a new Player object
\* and the call reports success.
add_player_again(c) ==
    /\ call' = Call("add_player", c, 0)
    /\ players' = IF IsPresent(c) THEN players ELSE Append(players, c)
    /\ pieces' = [pieces EXCEPT ![c] = NewPlayerPieces]
    /\ home_count' = [home_count EXCEPT ![c] = 0]
    /\ IF Len(players') = 4
       THEN start_game(players')
       ELSE /\ events' = <<>>
            /\ UNCHANGED <<game_state, current_player>>
    /\ ret' = RetBool(TRUE)
    /\ UNCHANGED dice_value

\* LudoGame.add_player, with the _start_game it calls on the 4th player
add_player(c) ==
    /\ call' = Call("add_player", c, 0)
    /\ IF IsPresent(c)
       THEN /\ ret' = RetBool(FALSE)
            /\ events' = <<>>
            /\ UNCHANGED game
       ELSE /\ players' = Append(players, c)
            /\ pieces' = [pieces EXCEPT ![c] = NewPlayerPieces]
            /\ home_count' = [home_count EXCEPT ![c] = 0]
            /\ IF Len(players) + 1 = 4
               THEN start_game(Append(players, c))
               ELSE /\ events' = <<>>
                    /\ UNCHANGED <<game_state, current_player>>
            /\ ret' = ReturnAfter(events', RetBool(TRUE))
            /\ UNCHANGED dice_value

\* LudoGame.remove_player.  The Player object and its pieces are dropped with
\* the dictionary entry; the table keeps a fresh record for an absent colour.
remove_player(c) ==
    /\ call' = Call("remove_player", c, 0)
    /\ events' = <<>>
    /\ IF ~ IsPresent(c)
       THEN /\ ret' = RetBool(FALSE)
            /\ UNCHANGED game
       ELSE /\ players' = SelectSeq(players, LAMBDA x : x # c)
            /\ pieces' = [pieces EXCEPT ![c] = NewPlayerPieces]
            /\ home_count' = [home_count EXCEPT ![c] = 0]
            /\ ret' = RetBool(TRUE)
            /\ UNCHANGED <<current_player, game_state, dice_value>>

\* Variant of roll_dice: the value rolled is returned but not stored.
roll_dice_unstored(d) ==
    /\ call' = Call("roll_dice", NoPlayer, 0)
    /\ IF game_state # ROLLING_DICE
       THEN /\ ret' = RetInt(0)
            /\ events' = <<>>
            /\ UNCHANGED game
       ELSE /\ game_state' = MOVING_PIECE
            /\ events' = <<Ev(DICE_ROLLED, current_player, <<>>, <<d>>)>>
            /\ ret' = RetInt(d)
            /\ UNCHANGED <<players, pieces, home_count, current_player, dice_value>>

\* Variant of roll_dice: a roll is also accepted in phase MOVING_PIECE.
roll_dice_again(d) ==
    /\ call' = Call("roll_dice", NoPlayer, 0)
    /\ IF game_state \notin {ROLLING_DICE, MOVING_PIECE}
       THEN /\ ret' = RetInt(0)
            /\ events' = <<>>
            /\ UNCHANGED game
       ELSE /\ dice_value' = d
            /\ game_state' = MOVING_PIECE
            /\ events' = <<Ev(DICE_ROLLED, current_player, <<>>, <<d>>)>>
            /\ ret' = RetInt(d)
            /\ UNCHANGED <<players, pieces, home_count, current_player>>

\* Variant of roll_dice: a roll is also accepted in phase GAME_OVER.
roll_dice_after_end(d) ==
    /\ call' = Call("roll_dice", NoPlayer, 0)
    /\ IF game_state \notin {ROLLING_DICE, GAME_OVER}
       THEN /\ ret' = RetInt(0)
            /\ events' = <<>>
            /\ UNCHANGED game
       ELSE /\ dice_value' = d
            /\ game_state' = MOVING_PIECE
            /\ events' = <<Ev(DICE_ROLLED, current_player, <<>>, <<d>>)>>
            /\ ret' = RetInt(d)
            /\ UNCHANGED <<players, pieces, home_count, current_player>>

\* LudoGame.roll_dice; d is the value random.randint(1, 6) draws
roll_dice(d) ==
    /\ call' = Call("roll_dice", NoPlayer, 0)
    /\ IF game_state # ROLLING_DICE
       THEN /\ ret' = RetInt(0)
            /\ events' = <<>>
            /\ UNCHANGED game
       ELSE /\ dice_value' = d
            /\ game_state' = MOVING_PIECE
            /\ events' = <<Ev(DICE_ROLLED, current_player, <<>>, <<d>>)>>
            /\ ret' = ReturnAfter(events', RetInt(d))
            /\ UNCHANGED <<players, pieces, home_count, current_player>>

\* The test get_valid_moves opens with (line 201)
moves_unavailable(c) == current_player # c \/ game_state # MOVING_PIECE

\* What LudoGame.get_valid_moves(c) gives in the current state
valid_moves_result(c) ==
    IF moves_unavailable(c) THEN RetList(<<>>)
    ELSE IF ~ IsPresent(c) THEN RetKeyError
    ELSE RetList(valid_moves_of(pieces, dice_value, c))

\* LudoGame.get_valid_moves
get_valid_moves(c) ==
    /\ call' = Call("get_valid_moves", c, 0)
    /\ events' = <<>>
    /\ ret' = valid_moves_result(c)
    /\ UNCHANGED game

\* LudoGame.get_game_state
get_game_state ==
    /\ call' = Call("get_game_state", NoPlayer, 0)
    /\ events' = <<>>
    /\ ret' = Ret(FALSE, FALSE, 0, <<>>, Snapshot)
    /\ UNCHANGED game

\* Variant of execute_move: PIECE_MOVED is emitted before PIECE_HOME and
\* PIECE_CAPTURED.
execute_move_moved_first(c, i, new_position) ==
    LET old_position == pieces[c][i].position
        p1 == [pieces EXCEPT ![c][i].position = new_position]
        finished == is_in_final_home(c, p1[c][i])
        p2 == IF finished THEN [p1 EXCEPT ![c][i].is_home = TRUE] ELSE p1
        hc == IF finished THEN [home_count EXCEPT ![c] = @ + 1] ELSE home_count
        cap == check_capture(players, p2, c, i, new_position)
        p3 == IF cap # <<>>
              THEN [p2 EXCEPT ![cap[1][1]][cap[1][2]] = PieceReset(@)]
              ELSE p2
        p4 == [p3 EXCEPT ![c][i].is_safe = (new_position \in safe_positions)]
        won == has_won(p4[c])
        nxt == next_player(players, p4, c)
        evHome == IF finished THEN <<Ev(PIECE_HOME, c, <<c>>, <<i>>)>> ELSE <<>>
        evCap == IF cap # <<>>
                 THEN <<Ev(PIECE_CAPTURED, c, <<cap[1][1], c>>, <<cap[1][2], i>>)>>
                 ELSE <<>>
        evMoved == <<Ev(PIECE_MOVED, c, <<>>,
                        <<i, old_position, new_position, dice_value>>)>>
        evEnd == IF won THEN <<Ev(EV_GAME_OVER, c, <<c>>, <<>>)>>
                 ELSE <<Ev(PLAYER_TURN_CHANGED, nxt, <<nxt>>, <<>>)>>
    IN /\ pieces' = p4
       /\ home_count' = hc
       /\ game_state' = IF won THEN GAME_OVER ELSE ROLLING_DICE
       /\ current_player' = IF won THEN current_player ELSE nxt
       /\ events' = evMoved \o evHome \o evCap \o evEnd
       /\ ret' = RetBool(TRUE)
       /\ UNCHANGED <<players, dice_value>>

\* Variant of execute_move: the dice is cleared once the move is made.
execute_move_clears_dice(c, i, new_position) ==
    LET old_position == pieces[c][i].position
        p1 == [pieces EXCEPT ![c][i].position = new_position]
        finished == is_in_final_home(c, p1[c][i])
        p2 == IF finished THEN [p1 EXCEPT ![c][i].is_home = TRUE] ELSE p1
        hc == IF finished THEN [home_count EXCEPT ![c] = @ + 1] ELSE home_count
        cap == check_capture(players, p2, c, i, new_position)
        p3 == IF cap # <<>>
              THEN [p2 EXCEPT ![cap[1][1]][cap[1][2]] = PieceReset(@)]
              ELSE p2
        p4 == [p3 EXCEPT ![c][i].is_safe = (new_position \in safe_positions)]
        won == has_won(p4[c])
        nxt == next_player(players, p4, c)
        evHome == IF finished THEN <<Ev(PIECE_HOME, c, <<c>>, <<i>>)>> ELSE <<>>
        evCap == IF cap # <<>>
                 THEN <<Ev(PIECE_CAPTURED, c, <<cap[1][1], c>>, <<cap[1][2], i>>)>>
                 ELSE <<>>
        evMoved == <<Ev(PIECE_MOVED, c, <<>>,
                        <<i, old_position, new_position, dice_value>>)>>
        evEnd == IF won THEN <<Ev(EV_GAME_OVER, c, <<c>>, <<>>)>>
                 ELSE <<Ev(PLAYER_TURN_CHANGED, nxt, <<nxt>>, <<>>)>>
        Stops(evs) == evs # <<>> /\ interrupted(event_listeners, evs[1])
        \* the emission at which a listener raises and the call is left
        LeftAt == IF Stops(evHome) THEN PIECE_HOME
                  ELSE IF Stops(evCap) THEN PIECE_CAPTURED
                  ELSE IF Stops(evMoved) THEN PIECE_MOVED
                  ELSE IF Stops(evEnd) THEN "end"
                  ELSE "not"
    IN \E left \in {LeftAt} :
       /\ pieces' = CASE left = PIECE_HOME -> p2
                       [] left = PIECE_CAPTURED -> p3
                       [] OTHER -> p4
       /\ home_count' = hc
       /\ game_state' = IF left \notin {"end", "not"} THEN game_state
                         ELSE IF won THEN GAME_OVER ELSE ROLLING_DICE
       /\ current_player' = IF left \notin {"end", "not"} \/ won THEN current_player
                             ELSE nxt
       /\ events' = CASE left = PIECE_HOME -> evHome
                       [] left = PIECE_CAPTURED -> evHome \o evCap
                       [] left = PIECE_MOVED -> evHome \o evCap \o evMoved
                       [] OTHER -> evHome \o evCap \o evMoved \o evEnd
       /\ ret' = IF left = "not" THEN RetBool(TRUE) ELSE RetListenerError
       /\ dice_value' = 0
       /\ UNCHANGED players

\* The part of LudoGame.move_piece after validation has passed (lines 235-281),
\* with the _end_game or _next_turn it ends with.
execute_move(c, i, new_position) ==
    LET old_position == pieces[c][i].position
        p1 == [pieces EXCEPT ![c][i].position = new_position]
        finished == is_in_final_home(c, p1[c][i])
        p2 == IF finished THEN [p1 EXCEPT ![c][i].is_home = TRUE] ELSE p1
        hc == IF finished THEN [home_count EXCEPT ![c] = @ + 1] ELSE home_count
        cap == check_capture(players, p2, c, i, new_position)
        p3 == IF cap # <<>>
              THEN [p2 EXCEPT ![cap[1][1]][cap[1][2]] = PieceReset(@)]
              ELSE p2
        p4 == [p3 EXCEPT ![c][i].is_safe = (new_position \in safe_positions)]
        won == has_won(p4[c])
        nxt == next_player(players, p4, c)
        evHome == IF finished THEN <<Ev(PIECE_HOME, c, <<c>>, <<i>>)>> ELSE <<>>
        evCap == IF cap # <<>>
                 THEN <<Ev(PIECE_CAPTURED, c, <<cap[1][1], c>>, <<cap[1][2], i>>)>>
                 ELSE <<>>
        evMoved == <<Ev(PIECE_MOVED, c, <<>>,
                        <<i, old_position, new_position, dice_value>>)>>
        evEnd == IF won THEN <<Ev(EV_GAME_OVER, c, <<c>>, <<>>)>>
                 ELSE <<Ev(PLAYER_TURN_CHANGED, nxt, <<nxt>>, <<>>)>>
        Stops(evs) == evs # <<>> /\ interrupted(event_listeners, evs[1])
        \* the emission at which a listener raises and the call is left
        LeftAt == IF Stops(evHome) THEN PIECE_HOME
                  ELSE IF Stops(evCap) THEN PIECE_CAPTURED
                  ELSE IF Stops(evMoved) THEN PIECE_MOVED
                  ELSE IF Stops(evEnd) THEN "end"
                  ELSE "not"
    IN \E left \in {LeftAt} :
       /\ pieces' = CASE left = PIECE_HOME -> p2
                       [] left = PIECE_CAPTURED -> p3
                       [] OTHER -> p4
       /\ home_count' = hc
       /\ game_state' = IF left \notin {"end", "not"} THEN game_state
                         ELSE IF won THEN GAME_OVER ELSE ROLLING_DICE
       /\ current_player' = IF left \notin {"end", "not"} \/ won THEN current_player
                             ELSE nxt
       /\ events' = CASE left = PIECE_HOME -> evHome
                       [] left = PIECE_CAPTURED -> evHome \o evCap
                       [] left = PIECE_MOVED -> evHome \o evCap \o evMoved
                       [] OTHER -> evHome \o evCap \o evMoved \o evEnd
       /\ ret' = IF left = "not" THEN RetBool(TRUE) ELSE RetListenerError
       /\ UNCHANGED <<players, dice_value>>

\* Variant of move_refused: the phase is not looked at.
move_refused_turn_only(c) == current_player # c

\* The test move_piece opens with (line 217)
move_refused(c) == current_player # c \/ game_state # MOVING_PIECE

\* Variant of reject_move: the rejected move ends the moving phase.
reject_move_ends_phase(c, i) ==
    /\ ret' = RetBool(FALSE)
    /\ events' = <<Ev(INVALID_MOVE, c, <<>>, <<i, dice_value>>)>>
    /\ game_state' = ROLLING_DICE
    /\ UNCHANGED <<players, pieces, home_count, current_player, dice_value>>

\* Variant of reject_move: the rejected move passes the turn.
reject_move_passes(c, i) ==
    /\ events' = <<Ev(INVALID_MOVE, c, <<>>, <<i, dice_value>>)>>
    /\ ret' = RetBool(FALSE)
    /\ current_player' = next_player(players, pieces, current_player)
    /\ game_state' = ROLLING_DICE
    /\ UNCHANGED <<players, pieces, home_count, dice_value>>

\* The rejection of a move that fails validation (lines 227-233)
reject_move(c, i) ==
    /\ events' = <<Ev(INVALID_MOVE, c, <<>>, <<i, dice_value>>)>>
    /\ ret' = ReturnAfter(events', RetBool(FALSE))
    /\ UNCHANGED game

\* LudoGame.move_piece
move_piece(c, i) ==
    /\ call' = Call("move_piece", c, i)
    /\ IF move_refused(c)
       THEN /\ ret' = RetBool(FALSE)
            /\ events' = <<>>
            /\ UNCHANGED game
       ELSE IF ~ IsPresent(c)
       THEN /\ ret' = RetKeyError
            /\ events' = <<>>
            /\ UNCHANGED game
       ELSE IF i < 0 \/ i >= 4
       THEN /\ ret' = RetBool(FALSE)
            /\ events' = <<>>
            /\ UNCHANGED game
       ELSE LET new_position == calculate_new_position(c, pieces[c][i], dice_value) IN
            IF ~ is_valid_move(pieces, dice_value, c, i, new_position)
            THEN reject_move(c, i)
            ELSE execute_move(c, i, new_position)

\* LudoGame._next_turn
next_turn ==
    /\ call' = Call("_next_turn", NoPlayer, 0)
    /\ IF current_player = NoPlayer
       THEN /\ events' = <<>>
            /\ UNCHANGED game
       ELSE LET nxt == next_player(players, pieces, current_player) IN
            /\ current_player' = nxt
            /\ game_state' = ROLLING_DICE
            /\ events' = <<Ev(PLAYER_TURN_CHANGED, nxt, <<nxt>>, <<>>)>>
            /\ UNCHANGED <<players, pieces, home_count, dice_value>>
    /\ ret' = ReturnAfter(events', RetNone)

\* Variant of reset_game: the game is not started again when 4 players are
\* present.
reset_game_waits ==
    /\ call' = Call("reset_game", NoPlayer, 0)
    /\ ret' = RetNone
    /\ pieces' = [c \in Colors |-> [i \in PieceIndex |-> PieceReset(pieces[c][i])]]
    /\ home_count' = [c \in Colors |-> 0]
    /\ dice_value' = 0
    /\ game_state' = WAITING_FOR_PLAYERS
    /\ current_player' = NoPlayer
    /\ events' = <<>>
    /\ UNCHANGED players

\* Variant of reset_game: the dice value is left as it was.
reset_game_keeps_dice ==
    /\ call' = Call("reset_game", NoPlayer, 0)
    /\ ret' = RetNone
    /\ pieces' = [c \in Colors |-> [i \in PieceIndex |-> PieceReset(pieces[c][i])]]
    /\ home_count' = [c \in Colors |-> 0]
    /\ IF Len(players) = 4
       THEN start_game(players)
       ELSE /\ game_state' = WAITING_FOR_PLAYERS
            /\ current_player' = NoPlayer
            /\ events' = <<>>
    /\ UNCHANGED <<players, dice_value>>

\* Variant of reset_game: the home counts are left as they were.
reset_game_keeps_count ==
    /\ call' = Call("reset_game", NoPlayer, 0)
    /\ ret' = RetNone
    /\ pieces' = [c \in Colors |-> [i \in PieceIndex |-> PieceReset(pieces[c][i])]]
    /\ dice_value' = 0
    /\ IF Len(players) = 4
       THEN start_game(players)
       ELSE /\ game_state' = WAITING_FOR_PLAYERS
            /\ current_player' = NoPlayer
            /\ events' = <<>>
    /\ UNCHANGED <<players, home_count>>

\* LudoGame.reset_game, with the _start_game it calls when 4 players are present
reset_game ==
    /\ call' = Call("reset_game", NoPlayer, 0)
    /\ pieces' = [c \in Colors |-> [i \in PieceIndex |-> PieceReset(pieces[c][i])]]
    /\ home_count' = [c \in Colors |-> 0]
    /\ dice_value' = 0
    /\ IF Len(players) = 4
       THEN start_game(players)
       ELSE /\ game_state' = WAITING_FOR_PLAYERS
            /\ current_player' = NoPlayer
            /\ events' = <<>>
    /\ ret' = ReturnAfter(events', RetNone)
    /\ UNCHANGED players

-----------------------------------------------------------------------------
(* Openings.  A run first replays one opening, operation by operation,       *)
(* through the operations above (the dice values are the ones the opening    *)
(* names, a turn without a legal move is passed with _next_turn as the       *)
(* drivers do), and is then free to call any operation MaxFree times.        *)

MaxFree == 4

\* A turn of an opening is <<dice value, index of the piece moved>>, or <<dice
\* value>> alone when the player has no legal move and passes.
Pass == <<1>>

Rep(n, x) == [k \in 1..n |-> x]

\* Turns of whole rounds in the order RED, GREEN, YELLOW, BLUE.
Rounds(rs, gs, ys, bs) ==
    [k \in 1 .. (4 * Len(rs)) |->
        LET r == ((k - 1) \div 4) + 1
            w == (k - 1) % 4
        IN CASE w = 0 -> rs[r] [] w = 1 -> gs[r] [] w = 2 -> ys[r] [] w = 3 -> bs[r]]

\* Roster changes after the turns of an opening
Leave(c) == <<"remove_player", c>>
Join(c) == <<"add_player", c>>

\* Every colour has three pieces finished and the fourth on the last cells
\* of the track: GREEN on 46, RED on 47, YELLOW on 48, BLUE on 51, RED to
\* roll.  Each colour brings its pieces in one after the other, RED by the
\* cells 0, 6, ..., 48, GREEN by 13, 19, ..., 49, YELLOW by 26, 32, ..., 50,
\* BLUE by 39, 45, 51, and waits at base while the others finish theirs.
LastPieces ==
    [listeners |-> <<HANDLE_EVENT>>,
     adds |-> <<RED, GREEN, YELLOW, BLUE>>,
     turns |-> Rounds(
        Rep(9, <<6, 0>>) \o <<<<2, 0>>>> \o Rep(9, <<6, 1>>) \o <<<<2, 1>>>>
            \o Rep(9, <<6, 2>>) \o <<<<2, 2>>>>
            \o Rep(8, <<6, 3>>) \o <<<<5, 3>>>>,
        Rep(8, Pass)
            \o Rep(7, <<6, 0>>) \o <<<<3, 0>>>> \o Rep(7, <<6, 1>>) \o <<<<3, 1>>>>
            \o Rep(7, <<6, 2>>) \o <<<<3, 2>>>>
            \o Rep(6, <<6, 3>>) \o <<<<3, 3>>>>,
        Rep(16, Pass)
            \o Rep(5, <<6, 0>>) \o <<<<2, 0>>>> \o Rep(5, <<6, 1>>) \o <<<<2, 1>>>>
            \o Rep(5, <<6, 2>>) \o <<<<2, 2>>>>
            \o Rep(4, <<6, 3>>) \o <<<<4, 3>>>>,
        Rep(24, Pass)
            \o Rep(3, <<6, 0>>) \o <<<<1, 0>>>> \o Rep(3, <<6, 1>>) \o <<<<1, 1>>>>
            \o Rep(3, <<6, 2>>) \o <<<<1, 2>>>>
            \o Rep(3, <<6, 3>>)),
     roster |-> <<>>]

\* A listener subscribed after the turns of an opening
Subscribe(l) == <<"add_event_listener", l>>

\* A new game: nothing replayed.
NewGame == [listeners |-> <<>>, adds |-> <<>>, turns |-> <<>>, roster |-> <<>>]

\* The four colours join, RED third.
Joined == [listeners |-> <<HANDLE_EVENT>>, adds |-> <<BLUE, GREEN, RED, YELLOW>>, turns |-> <<>>, roster |-> <<>>]

\* RED on 15 and 12, GREEN on 17 and 13, RED to roll.
Contact ==
    [listeners |-> <<HANDLE_EVENT, EVENT_LISTENER>>,
     adds |-> <<RED, GREEN, YELLOW, BLUE>>,
     turns |-> Rounds(
        <<<<6, 0>>, <<6, 0>>, <<6, 0>>, <<3, 0>>, <<6, 1>>, <<6, 1>>, <<6, 1>>>>,
        Rep(4, Pass) \o <<<<6, 0>>, <<4, 0>>, <<6, 1>>>>,
        Rep(7, Pass),
        Rep(7, Pass)),
     roster |-> <<>>]

\* RED on 49 and 44, GREEN on 50 and 47, RED to roll.
HomeEntry ==
    [listeners |-> <<EVENT_LISTENER, HANDLE_EVENT>>,
     adds |-> <<RED, GREEN, YELLOW, BLUE>>,
     turns |-> Rounds(
        Rep(9, <<6, 0>>) \o <<<<1, 0>>>> \o Rep(8, <<6, 1>>) \o <<<<2, 1>>>>,
        Rep(4, Pass) \o Rep(6, <<6, 0>>) \o <<<<5, 0>>, <<2, 0>>>>
            \o Rep(6, <<6, 1>>) \o <<<<4, 1>>>>,
        Rep(19, Pass),
        Rep(19, Pass)),
     roster |-> <<>>]

\* BLUE has three pieces finished and the fourth on 51, BLUE to roll.
Endgame ==
    [listeners |-> <<EVENT_LISTENER, EVENT_LISTENER>>,
     adds |-> <<YELLOW, RED, BLUE, GREEN>>,
     turns |-> Rounds(
        Rep(15, Pass), Rep(15, Pass), Rep(15, Pass),
        Rep(3, <<6, 0>>) \o <<<<1, 0>>>> \o Rep(3, <<6, 1>>) \o <<<<2, 1>>>>
            \o Rep(3, <<6, 2>>) \o <<<<3, 2>>>> \o Rep(3, <<6, 3>>))
        \o Rep(3, Pass),
     roster |-> <<>>]

\* RED on 10, GREEN on its start cell 13, RED to roll.
SafeCell ==
    [listeners |-> <<>>,
     adds |-> <<RED, GREEN, YELLOW, BLUE>>,
     turns |-> Rounds(
        <<<<6, 0>>, <<6, 0>>, <<4, 0>>>>,
        <<Pass, Pass, <<6, 0>>>>,
        Rep(3, Pass),
        Rep(3, Pass)),
     roster |-> <<>>]

\* GREEN has won; RED has three pieces finished and the fourth on 44; YELLOW
\* has then left and joined again, which puts RED to roll.
Rematch ==
    [listeners |-> <<EVENT_LISTENER>>,
     adds |-> <<RED, GREEN, YELLOW, BLUE>>,
     turns |-> Rounds(
        Rep(9, <<6, 0>>) \o <<<<2, 0>>>> \o Rep(9, <<6, 1>>) \o <<<<2, 1>>>>
            \o Rep(9, <<6, 2>>) \o <<<<2, 2>>>>
            \o Rep(8, <<6, 3>>),
        Rep(7, Pass)
            \o Rep(7, <<6, 0>>) \o <<<<3, 0>>>> \o Rep(7, <<6, 1>>) \o <<<<3, 1>>>>
            \o Rep(7, <<6, 2>>) \o <<<<3, 2>>>> \o Rep(7, <<6, 3>>),
        Rep(38, Pass),
        Rep(38, Pass))
        \o <<<<2, 3>>, <<3, 3>>>>,
     roster |-> <<Leave(YELLOW), Join(YELLOW)>>]

\* RED on 10 and 13, GREEN on its start cell 13, RED to roll.
Blocked ==
    [listeners |-> <<>>,
     adds |-> <<RED, GREEN, YELLOW, BLUE>>,
     turns |-> Rounds(
        Rep(3, <<6, 1>>) \o <<<<1, 1>>, <<6, 0>>, <<6, 0>>, <<4, 0>>>>,
        Rep(6, Pass) \o <<<<6, 0>>>>,
        Rep(7, Pass),
        Rep(7, Pass)),
     roster |-> <<>>]

\* RED on its start cell and to roll; the other three colours have left.
Alone ==
    [listeners |-> <<>>,
     adds |-> <<RED, GREEN, YELLOW, BLUE>>,
     turns |-> Rounds(<<<<6, 0>>>>, <<Pass>>, <<Pass>>, <<Pass>>),
     roster |-> <<Leave(GREEN), Leave(YELLOW), Leave(BLUE)>>]

Scenarios ==
    <<NewGame, Joined, Contact, HomeEntry, Endgame, SafeCell, Rematch, Blocked, Alone>>

\* Opening s with a listener that raises on events of type t subscribed
\* once its turns are played, and an ordinary listener subscribed after it.
WithRaising(s, t) ==
    [s EXCEPT !.roster = @ \o <<Subscribe(RaisesOn(t)), Subscribe(EVENT_LISTENER)>>]

\* The openings with a listener that raises, one for each place where an
\* operation emits an event.
RaisingScenarios ==
    <<WithRaising(NewGame, GAME_STARTED),
      WithRaising(Joined, DICE_ROLLED),
      WithRaising(Joined, INVALID_MOVE),
      WithRaising(HomeEntry, PIECE_HOME),
      WithRaising(HomeEntry, PIECE_CAPTURED),
      WithRaising(HomeEntry, PIECE_MOVED),
      WithRaising(HomeEntry, PLAYER_TURN_CHANGED),
      WithRaising(Endgame, EV_GAME_OVER)>>

\* The openings from which whole games are played to the end
PlayScenarios == <<LastPieces>>

Openings == Scenarios \o RaisingScenarios \o PlayScenarios

\* An opening is its subscriptions, then its adds, then its turns (a roll and
\* a move or pass each), then its roster changes and late subscriptions.
ScriptLen(s) == Len(s.listeners) + Len(s.adds) + 2 * Len(s.turns) + Len(s.roster)

InScript == step < ScriptLen(Openings[scenario])

Free == ~ InScript /\ budget > 0

Tick == budget' = budget - 1 /\ UNCHANGED <<scenario, step>>

\* No operation but add_event_listener touches the listener list.
NoSubscription == UNCHANGED event_listeners

\* What the listeners have been called with during the call, and what a
\* listener counting GAME_OVER events has seen after it: the count starts
\* again with reset_game.
Observe ==
    /\ received' = Delivered(event_listeners, events')
    /\ game_overs' =
          IF call'.op = "reset_game" THEN 0
          ELSE game_overs + Len(SelectSeq(events', LAMBDA e : e.type = EV_GAME_OVER))

-----------------------------------------------------------------------------
(* Specification *)

\* LudoGame.__init__, and the choice of one of the openings numbered in S
Constructed(S) ==
    /\ players = <<>>
    /\ pieces = [c \in Colors |-> NewPlayerPieces]
    /\ home_count = [c \in Colors |-> 0]
    /\ current_player = NoPlayer
    /\ game_state = WAITING_FOR_PLAYERS
    /\ dice_value = 0
    /\ call = Call("__init__", NoPlayer, 0)
    /\ ret = RetNone
    /\ events = <<>>
    /\ event_listeners = <<>>
    /\ received = <<>>
    /\ game_overs = 0
    /\ scenario \in S
    /\ step = 0
    /\ budget = MaxFree

Init == Constructed(1..Len(Scenarios))

\* One operation of the opening
Replay ==
    /\ InScript
    /\ LET s == Openings[scenario]
           n == step + 1 - Len(s.listeners)
       IN IF n <= 0
          THEN add_event_listener(s.listeners[step + 1])
          ELSE IF n <= Len(s.adds)
          THEN NoSubscription /\ add_player(s.adds[n])
          ELSE IF n <= Len(s.adds) + 2 * Len(s.turns)
          THEN LET k == n - Len(s.adds) - 1
                   t == s.turns[(k \div 2) + 1]
               IN /\ NoSubscription
                  /\ IF k % 2 = 0 THEN roll_dice(t[1])
                     ELSE IF Len(t) = 1 THEN next_turn
                     ELSE move_piece(current_player, t[2])
          ELSE LET r == s.roster[n - Len(s.adds) - 2 * Len(s.turns)]
               IN IF r[1] = "add_event_listener" THEN add_event_listener(r[2])
                  ELSE IF r[1] = "remove_player"
                  THEN NoSubscription /\ remove_player(r[2])
                  ELSE NoSubscription /\ add_player(r[2])
    /\ Observe
    /\ step' = step + 1
    /\ UNCHANGED <<scenario, budget>>

DiceValues == 1..6
PieceArgs == -1..4

AddPlayer ==
    /\ Free /\ Tick /\ NoSubscription
    /\ \E c \in Colors : add_player(c)
    /\ Observe

RemovePlayer ==
    /\ Free /\ Tick /\ NoSubscription
    /\ \E c \in Colors : remove_player(c)
    /\ Observe

RollDice ==
    /\ Free /\ Tick /\ NoSubscription
    /\ \E d \in DiceValues : roll_dice(d)
    /\ Observe

GetValidMoves ==
    /\ Free /\ Tick /\ NoSubscription
    /\ \E c \in Colors : get_valid_moves(c)
    /\ Observe

MovePiece ==
    /\ Free /\ Tick /\ NoSubscription
    /\ \E c \in Colors, i \in PieceArgs : move_piece(c, i)
    /\ Observe

GetGameState ==
    /\ Free /\ Tick /\ NoSubscription
    /\ get_game_state
    /\ Observe

ResetGame ==
    /\ Free /\ Tick /\ NoSubscription
    /\ reset_game
    /\ Observe

\* The drivers' turn loop (cli_example.py, ai_player.py): a player without a
\* legal move passes the turn by calling _next_turn.
SkipTurn ==
    /\ Free /\ Tick /\ NoSubscription
    /\ game_state = MOVING_PIECE
    /\ IsPresent(current_player)
    /\ valid_moves_of(pieces, dice_value, current_player) = <<>>
    /\ next_turn
    /\ Observe

Next ==
    \/ Replay
    \/ AddPlayer
    \/ RemovePlayer
    \/ RollDice
    \/ GetValidMoves
    \/ MovePiece
    \/ GetGameState
    \/ ResetGame
    \/ SkipTurn

Spec == Init /\ [][Next]_vars

\* The same operations on a game in which one of the listeners raises
InitRaising ==
    Constructed((Len(Scenarios) + 1) .. (Len(Scenarios) + Len(RaisingScenarios)))

SpecRaising == InitRaising /\ [][Next]_vars

\* The games in which no player is ever removed: the openings without a
\* remove_player, continued by every operation but remove_player.
NoRemoveScenarios ==
    {s \in 1..Len(Scenarios) :
        \A k \in 1..Len(Scenarios[s].roster) :
            Scenarios[s].roster[k][1] # "remove_player"}

InitNoRemove == Constructed(NoRemoveScenarios)

NextNoRemove ==
    \/ Replay
    \/ AddPlayer
    \/ RollDice
    \/ GetValidMoves
    \/ MovePiece
    \/ GetGameState
    \/ ResetGame
    \/ SkipTurn

SpecNoRemove == InitNoRemove /\ [][NextNoRemove]_vars

\* The drivers' turn loop (cli_example.py _auto_play_turn and play_game,
\* ai_player.py make_move): the current player rolls, then makes one of the
\* moves get_valid_moves lists, or passes with _next_turn when it lists
\* none; the loop ends when the phase is GAME_OVER.
Playing == ~ InScript /\ UNCHANGED harness /\ NoSubscription

TurnRoll(d) ==
    /\ Playing
    /\ game_state = ROLLING_DICE
    /\ roll_dice(d)
    /\ Observe

TurnMove(i) ==
    /\ Playing
    /\ game_state = MOVING_PIECE
    /\ \E n \in 1..Len(valid_moves_result(current_player).moves) :
          valid_moves_result(current_player).moves[n][1] = i
    /\ move_piece(current_player, i)
    /\ Observe

\* A loop that asks for the legal moves again instead of passing
TurnPass_waiting ==
    /\ Playing
    /\ game_state = MOVING_PIECE
    /\ valid_moves_result(current_player).moves = <<>>
    /\ get_valid_moves(current_player)
    /\ Observe

TurnPass ==
    /\ Playing
    /\ game_state = MOVING_PIECE
    /\ valid_moves_result(current_player).moves = <<>>
    /\ next_turn
    /\ Observe

PlayRoll == \E d \in DiceValues : TurnRoll(d)

PlayMove == \E i \in PieceIndex : TurnMove(i)

InitPlay ==
    Constructed((Len(Scenarios) + Len(RaisingScenarios) + 1) .. Len(Openings))

NextPlay == Replay \/ PlayRoll \/ PlayMove \/ TurnPass

\* The loop goes on while the game is not over; every dice value and every
\* choice of piece that can be taken again and again is taken again and
\* again.
FairPlay ==
    /\ WF_vars(NextPlay)
    /\ \A d \in DiceValues : SF_vars(TurnRoll(d))
    /\ \A i \in PieceIndex : SF_vars(TurnMove(i))

SpecPlay == InitPlay /\ [][NextPlay]_vars /\ FairPlay

-----------------------------------------------------------------------------
(* Type correctness *)

TypeOK ==
    /\ game_state \in GameStates
    /\ current_player \in Colors \cup {NoPlayer}
    /\ dice_value \in 0..6
    /\ Len(players) <= 4
    /\ \A k \in 1..Len(event_listeners) :
          event_listeners[k] \in Listeners \cup {RaisesOn(t) : t \in EventTypes}
    /\ Len(received) <= Len(events) * Len(event_listeners)
    /\ \A c \in Colors : home_count[c] \in 0..4
    /\ \A c \in Colors, i \in PieceIndex :
          /\ pieces[c][i].position \in -1..100
          /\ pieces[c][i].is_home \in BOOLEAN
          /\ pieces[c][i].is_safe \in BOOLEAN

-----------------------------------------------------------------------------
(* Properties *)

IsCall(op) == call'.op = op

Returned == ~ ret'.exc

EventsOfType(evs, type) == SelectSeq(evs, LAMBDA e : e.type = type)

PublicOpsExceptReset ==
    {"add_player", "remove_player", "roll_dice", "get_valid_moves", "move_piece",
     "get_game_state"}

\* C1: a game waits, with no current player, until the add_player call that
\* makes the player count 4; that call sets the phase to ROLLING_DICE, makes
\* RED the current player whatever the order of the adds, and emits exactly
\* one GAME_STARTED event carrying the colours in joining order.
C1_StartOnFourthAdd ==
    /\ [](game_state = WAITING_FOR_PLAYERS =>
            current_player = NoPlayer /\ Len(players) < 4)
    /\ [][/\ (game_state = WAITING_FOR_PLAYERS /\ Len(players') < 4) =>
                (game_state' = WAITING_FOR_PLAYERS /\ current_player' = NoPlayer)
          /\ (IsCall("add_player") /\ ret'.ok /\ Len(players') = 4) =>
                /\ game_state' = ROLLING_DICE
                /\ current_player' = RED
                /\ events' = <<Ev(GAME_STARTED, RED, players', <<>>)>>]_vars

\* C1 witness: the 4th add has just started a game whose players did not join
\* in the order RED, GREEN, YELLOW, BLUE.
C1_Witness ==
    /\ call.op = "add_player" /\ ret.ok
    /\ Len(players) = 4 /\ players # player_order /\ players[4] = RED
    /\ game_state = ROLLING_DICE /\ current_player = RED
    /\ Len(events) = 1 /\ events[1].type = GAME_STARTED

PhaseEdges ==
    {<<WAITING_FOR_PLAYERS, ROLLING_DICE>>, <<ROLLING_DICE, MOVING_PIECE>>,
     <<MOVING_PIECE, ROLLING_DICE>>, <<MOVING_PIECE, GAME_OVER>>}

\* C2: under the public operations other than reset_game the phase changes
\* only along WAITING_FOR_PLAYERS -> ROLLING_DICE, ROLLING_DICE -> MOVING_PIECE,
\* MOVING_PIECE -> ROLLING_DICE and MOVING_PIECE -> GAME_OVER, so GAME_OVER is
\* terminal.
C2_PhaseEdges ==
    [][(call'.op \in PublicOpsExceptReset /\ game_state' # game_state) =>
          <<game_state, game_state'>> \in PhaseEdges]_vars

\* C3: roll_dice in phase ROLLING_DICE returns a value in 1..6, stores it as
\* dice_value, sets the phase to MOVING_PIECE, leaves the current player, the
\* players and every piece unchanged, and emits exactly one DICE_ROLLED event
\* with that value and the current player as acting colour.
C3_RollInRollingDice ==
    [][(IsCall("roll_dice") /\ game_state = ROLLING_DICE) =>
          /\ Returned
          /\ ret'.val \in 1..6
          /\ dice_value' = ret'.val
          /\ game_state' = MOVING_PIECE
          /\ UNCHANGED <<current_player, players, pieces, home_count>>
          /\ events' = <<Ev(DICE_ROLLED, current_player, <<>>, <<ret'.val>>)>>]_vars

\* C3 witness: a roll of 6 has just been made for GREEN while pieces are on
\* the track.
C3_Witness ==
    /\ call.op = "roll_dice" /\ ret.val = 6 /\ dice_value = 6
    /\ game_state = MOVING_PIECE /\ current_player = GREEN
    /\ \E i \in PieceIndex : pieces[GREEN][i].position >= 0
    /\ Len(events) = 1 /\ events[1].type = DICE_ROLLED

\* C4: roll_dice in any phase other than ROLLING_DICE returns 0, emits no
\* event and changes nothing: a second roll in a turn cannot replace the dice
\* value.
C4_RollElsewhere ==
    [][(IsCall("roll_dice") /\ game_state # ROLLING_DICE) =>
          /\ Returned
          /\ ret'.val = 0
          /\ events' = <<>>
          /\ UNCHANGED game]_vars

\* C4 witness: a second roll in the same turn was refused and the dice value
\* of the first roll is still there.
C4_Witness ==
    /\ call.op = "roll_dice" /\ ret.val = 0
    /\ game_state = MOVING_PIECE /\ dice_value \in 1..6

\* The list C5 describes for colour c: in index order, one entry for each
\* unfinished piece that is at base with a dice value of 6 (destination the
\* start cell) or in transit with a destination no other unfinished piece of
\* the colour occupies.
C5_Listed(c, i) ==
    /\ ~ pieces[c][i].is_home
    /\ \/ pieces[c][i].position = HomeBase /\ dice_value = 6
       \/ /\ pieces[c][i].position # HomeBase
          /\ ~ \E j \in PieceIndex \ {i} :
                 /\ ~ pieces[c][j].is_home
                 /\ pieces[c][j].position =
                       calculate_new_position(c, pieces[c][i], dice_value)

C5_Destination(c, i) ==
    IF pieces[c][i].position = HomeBase THEN start_position(c)
    ELSE calculate_new_position(c, pieces[c][i], dice_value)

C5_Expected(c) ==
    IF current_player # c \/ game_state # MOVING_PIECE THEN <<>>
    ELSE LET all == [n \in 1..NumPieces |-> <<n - 1, C5_Destination(c, n - 1)>>]
         IN SelectSeq(all, LAMBDA m : C5_Listed(c, m[1]))

\* C5: get_valid_moves(c) returns the empty list unless c is the current
\* player and the phase is MOVING_PIECE; otherwise it returns, in piece order,
\* exactly the entries (piece, destination) of the pieces of c that are not
\* finished and are either at base with a dice value of 6 (destination: the
\* start cell) or in transit with a destination free of other unfinished
\* pieces of c.
C5_LegalMoves ==
    [][IsCall("get_valid_moves") =>
          /\ Returned
          /\ ret'.moves = C5_Expected(call'.color)]_vars

\* C5 with the call's colour present: what holds of the code.
C5_LegalMovesWhenPresent ==
    [][(IsCall("get_valid_moves") /\ IsPresent(call'.color)) =>
          /\ Returned
          /\ ret'.moves = C5_Expected(call'.color)]_vars

\* C6: a piece leaves the base only in a successful move_piece made with a
\* dice value of 6, and lands on its colour's start cell; get_valid_moves
\* never lists a base piece when the dice value is not 6.
C6_LeaveBaseOnSix ==
    [][/\ \A c \in Colors, i \in PieceIndex :
            (pieces[c][i].position = HomeBase /\ pieces'[c][i].position # HomeBase) =>
               /\ IsCall("move_piece") /\ ret'.ok
               /\ call'.color = c /\ call'.piece = i
               /\ dice_value = 6
               /\ pieces'[c][i].position = start_position(c)
               /\ start_position(c) \in {0, 13, 26, 39}
       /\ (IsCall("get_valid_moves") /\ dice_value # 6) =>
            \A n \in 1..Len(ret'.moves) :
               pieces[call'.color][ret'.moves[n][1]].position # HomeBase]_vars

\* C6 witness: BLUE has just brought piece 2 from the base to cell 39.
C6_Witness ==
    /\ call = Call("move_piece", BLUE, 2) /\ ret.ok
    /\ pieces[BLUE][2].position = 39
    /\ \E n \in 1..Len(events) :
          events[n].type = PIECE_MOVED /\ events[n].nums = <<2, HomeBase, 39, 6>>

C7_Entries(c, i) == SelectSeq(valid_moves_result(c).moves, LAMBDA m : m[1] = i)

\* C7: move_piece(c, i) succeeds iff get_valid_moves(c), evaluated in the
\* state of the call, lists piece i; on success the piece is at the listed
\* destination.
C7_MoveAgreesWithLegalMoves ==
    [][IsCall("move_piece") =>
          /\ ret'.ok <=> C7_Entries(call'.color, call'.piece) # <<>>
          /\ ret'.ok => pieces'[call'.color][call'.piece].position =
                           C7_Entries(call'.color, call'.piece)[1][2]]_vars

\* C7 witness: a piece in transit has just been moved along the track.
C7_Witness ==
    /\ call.op = "move_piece" /\ ret.ok /\ budget < MaxFree
    /\ \E n \in 1..Len(events) :
          /\ events[n].type = PIECE_MOVED
          /\ events[n].nums[2] >= 0
          /\ events[n].nums[3] = pieces[call.color][call.piece].position

\* C8: a move_piece call that returns failure leaves the phase, the current
\* player, the dice value, the players, every piece and every home count
\* unchanged.
C8_FailedMoveChangesNothing ==
    [][(IsCall("move_piece") /\ Returned /\ ~ ret'.ok) => UNCHANGED game]_vars

\* C8 witness: a move was refused because another unfinished piece of the
\* mover is on the destination.
C8_Witness ==
    /\ call.op = "move_piece" /\ ~ ret.ok /\ ~ ret.exc
    /\ call.piece \in PieceIndex
    /\ current_player = call.color /\ game_state = MOVING_PIECE
    /\ pieces[call.color][call.piece].position >= 0
    /\ ~ pieces[call.color][call.piece].is_home
    /\ \E j \in PieceIndex \ {call.piece} :
          pieces[call.color][j].position =
             pieces[call.color][call.piece].position + dice_value

\* C9: every move_piece call that returns failure emits exactly one
\* INVALID_MOVE event carrying the piece index and the dice value, whatever
\* the cause of the failure.
C9_FailedMoveEmitsInvalidMove ==
    [][(IsCall("move_piece") /\ Returned /\ ~ ret'.ok) =>
          events' = <<Ev(INVALID_MOVE, call'.color, <<>>,
                         <<call'.piece, dice_value>>)>>]_vars

\* The unfinished pieces of present colours other than c on cell pos
C10_Opposing(c, pos) ==
    {ci \in Colors \X PieceIndex :
        /\ ci[1] # c /\ IsPresent(ci[1])
        /\ pieces[ci[1]][ci[2]].position = pos
        /\ ~ pieces[ci[1]][ci[2]].is_home}

\* C10: when a successful move lands on a cell that is not safe and an
\* unfinished piece of another colour is on that cell, that piece is put back
\* at base with its flags cleared and exactly one PIECE_CAPTURED event names
\* it and the mover; when no such piece is on the destination no piece but
\* the mover changes and no PIECE_CAPTURED is emitted.
C10_Capture ==
    [][(IsCall("move_piece") /\ ret'.ok) =>
          LET c == call'.color
              i == call'.piece
              dest == pieces'[c][i].position
              opp == C10_Opposing(c, dest)
              caps == EventsOfType(events', PIECE_CAPTURED)
          IN /\ (dest \notin safe_positions /\ opp # {}) =>
                   /\ \A ci \in opp : pieces'[ci[1]][ci[2]] = NewPiece
                   /\ Len(caps) = 1
                   /\ \E ci \in opp :
                         caps[1] = Ev(PIECE_CAPTURED, c, <<ci[1], c>>, <<ci[2], i>>)
             /\ opp = {} =>
                   /\ \A ci \in (Colors \X PieceIndex) \ {<<c, i>>} :
                         pieces'[ci[1]][ci[2]] = pieces[ci[1]][ci[2]]
                   /\ caps = <<>>]_vars

\* C10 witness: RED has just captured a GREEN piece on cell 17.
C10_Witness ==
    /\ call.op = "move_piece" /\ ret.ok /\ call.color = RED
    /\ pieces[RED][call.piece].position = 17
    /\ \E n \in 1..Len(events) :
          /\ events[n].type = PIECE_CAPTURED
          /\ events[n].colors = <<GREEN, RED>>
          /\ pieces[GREEN][events[n].nums[1]].position = HomeBase

\* The PIECE_MOVED event of the call just made records the cell the mover
\* came from
MovedFrom(evs, old_position) ==
    \E n \in 1..Len(evs) :
        evs[n].type = PIECE_MOVED /\ evs[n].nums[2] = old_position

Occupants(pcs, pos) ==
    {ci \in Colors \X PieceIndex :
        /\ IsPresent(ci[1])
        /\ pcs[ci[1]][ci[2]].position = pos
        /\ ~ pcs[ci[1]][ci[2]].is_home}

NonSafeCells == (0 .. (board_size - 1)) \ safe_positions

\* Piece a is unfinished, of a present colour, and on a track cell that is
\* not safe
Exposed(a) ==
    /\ pieces[a[1]][a[2]].position \in NonSafeCells
    /\ ~ pieces[a[1]][a[2]].is_home
    /\ IsPresent(a[1])

\* C12: in every reachable state each track cell that is not safe holds at
\* most one unfinished piece, and so a successful move has emitted at most
\* one PIECE_CAPTURED and has left no unfinished piece of another colour on
\* a destination that is not safe.
C12_OnePiecePerCell ==
    /\ \A a \in Colors \X PieceIndex :
          Exposed(a) =>
             Occupants(pieces, pieces[a[1]][a[2]].position) = {a}
    /\ (call.op = "move_piece" /\ ret.ok) =>
          LET c == call.color
              dest == pieces[c][call.piece].position
          IN /\ Len(EventsOfType(events, PIECE_CAPTURED)) <= 1
             /\ dest \in NonSafeCells =>
                   \A ci \in Occupants(pieces, dest) : ci[1] = c

\* C12 witness: GREEN has captured a RED piece on a cell that is not safe and
\* is now the only unfinished piece there.
C12_Witness ==
    /\ call.op = "move_piece" /\ ret.ok /\ call.color = GREEN
    /\ pieces[GREEN][call.piece].position \in NonSafeCells
    /\ Occupants(pieces, pieces[GREEN][call.piece].position) = {<<GREEN, call.piece>>}
    /\ \E n \in 1..Len(events) :
          /\ events[n].type = PIECE_CAPTURED
          /\ events[n].colors = <<RED, GREEN>>

\* The case of C13: the current player's unfinished piece i is on cell 10,
\* the dice shows 3, an unfinished piece of another colour is on cell 13,
\* and the move of piece i is asked for.
C13_Case(c, i) ==
    /\ IsCall("move_piece") /\ call'.color = c /\ call'.piece = i
    /\ current_player = c /\ game_state = MOVING_PIECE /\ dice_value = 3
    /\ IsPresent(c)
    /\ pieces[c][i].position = 10 /\ ~ pieces[c][i].is_home
    /\ C10_Opposing(c, 13) # {}

C14_SafeFlag ==
    \A c \in Colors, i \in PieceIndex :
        /\ pieces[c][i].is_safe <=> pieces[c][i].position \in safe_positions
        /\ pieces[c][i].position = HomeBase => ~ pieces[c][i].is_safe

\* C14 witness: a move has just put the mover on a safe cell that is not its
\* start cell, with the flag set, while another piece of the mover that was
\* on a safe cell has been moved off it earlier and has the flag cleared.
C14_Witness ==
    /\ call.op = "move_piece" /\ ret.ok
    /\ LET c == call.color
           p == pieces[c][call.piece]
       IN /\ p.position \in safe_positions \ {start_position(c)}
          /\ p.is_safe
          /\ \E j \in PieceIndex \ {call.piece} :
                /\ pieces[c][j].position \in NonSafeCells
                /\ ~ pieces[c][j].is_safe

\* The last of the six home-stretch cells of colour c
terminal_home(c) == home_position(c) + HomeStretchLen - 1

\* C15: a piece is marked finished only on the last cell of its colour's home
\* stretch (55, 68, 81, 94): in every reachable state a finished piece is on
\* that cell, and a successful move that ends on an earlier home-stretch
\* cell does not finish the piece, count it or emit PIECE_HOME.
C15_FinishedOnTerminalCell ==
    [][/\ \A c \in Colors, i \in PieceIndex :
             pieces'[c][i].is_home => pieces'[c][i].position = terminal_home(c)
       /\ (IsCall("move_piece") /\ ret'.ok
              /\ pieces'[call'.color][call'.piece].position # terminal_home(call'.color)) =>
             /\ ~ pieces'[call'.color][call'.piece].is_home
             /\ home_count' = home_count
             /\ EventsOfType(events', PIECE_HOME) = <<>>]_vars

\* What the code does where C15 says otherwise: a successful move finishes
\* the piece, counts it and emits one PIECE_HOME exactly when it ends on any
\* of the six home-stretch cells of the mover's colour.
C15_FinishedOnAnyHomeCell ==
    [][(IsCall("move_piece") /\ ret'.ok) =>
          LET c == call'.color
              i == call'.piece
              fin == pieces'[c][i].position \in home_stretch_positions(c)
          IN /\ pieces'[c][i].is_home <=> fin
             /\ home_count'[c] = home_count[c] + (IF fin THEN 1 ELSE 0)
             /\ EventsOfType(events', PIECE_HOME) =
                   (IF fin THEN <<Ev(PIECE_HOME, c, <<c>>, <<i>>)>> ELSE <<>>)]_vars

\* C16: in every reachable state the home_count of each player equals the
\* number of its pieces whose is_home flag is set, and has_won holds exactly
\* when home_count is 4.
C16_HomeCount ==
    \A c \in Colors :
        /\ home_count[c] = Cardinality(get_pieces_in_final_home(pieces[c]))
        /\ has_won(pieces[c]) <=> home_count[c] = 4

\* C16 witness: the move that finished GREEN's fourth piece has been made,
\* while RED has three pieces finished and one out on the track.
C16_Witness ==
    /\ call.op = "move_piece" /\ ret.ok /\ call.color = GREEN
    /\ home_count[GREEN] = 4 /\ has_won(pieces[GREEN])
    /\ game_state = GAME_OVER
    /\ home_count[RED] = 3 /\ ~ has_won(pieces[RED])

\* C17: in every reachable state every piece is at base, on a track cell
\* 0..51 or on a cell of its own colour's home stretch, and the home counts
\* add up to 16 at most.
C17_PositionsInRange ==
    /\ \A c \in Colors, i \in PieceIndex :
          pieces[c][i].position \in
             {HomeBase} \cup (0 .. (board_size - 1)) \cup home_stretch_positions(c)
    /\ home_count[RED] + home_count[GREEN] + home_count[YELLOW] + home_count[BLUE]
          <= NumPieces * 4

\* C17 witness: a BLUE piece has gone from cell 51 to the last cell of its
\* home stretch on a 6.
C17_Witness ==
    /\ call.op = "move_piece" /\ ret.ok /\ call.color = BLUE
    /\ dice_value = 6
    /\ MovedFrom(events, 51)
    /\ pieces[BLUE][call.piece].position = 94

\* The k-th colour after c in the cyclic order RED, GREEN, YELLOW, BLUE
ColourAfter(c, k) == player_order[((IndexOf(c) - 1 + k) % 4) + 1]

\* C18: after every successful move that does not end the game the phase is
\* ROLLING_DICE and the current player is the first colour after the mover,
\* in the cyclic order RED, GREEN, YELLOW, BLUE, that is present and has not
\* finished all four pieces, or the mover itself when there is none, whatever
\* the dice value; exactly one PLAYER_TURN_CHANGED naming that colour is
\* emitted.
C18_TurnAdvance ==
    [][(IsCall("move_piece") /\ ret'.ok /\ game_state' # GAME_OVER) =>
          LET c == call'.color
              Eligible(k) == /\ \E n \in 1..Len(players') : players'[n] = ColourAfter(c, k)
                             /\ home_count'[ColourAfter(c, k)] < 4
              turn == current_player'
          IN /\ game_state' = ROLLING_DICE
             /\ \/ \E k \in 1..3 : /\ Eligible(k)
                                   /\ \A m \in 1..(k - 1) : ~ Eligible(m)
                                   /\ turn = ColourAfter(c, k)
                \/ /\ \A k \in 1..3 : ~ Eligible(k)
                   /\ turn = c
             /\ EventsOfType(events', PLAYER_TURN_CHANGED) =
                   <<Ev(PLAYER_TURN_CHANGED, turn, <<turn>>, <<>>)>>]_vars

\* C18 witness: RED has moved while GREEN, present, has all four pieces
\* finished, and the turn has gone past GREEN to YELLOW.
C18_Witness ==
    /\ call.op = "move_piece" /\ ret.ok /\ call.color = RED
    /\ IsPresent(GREEN) /\ home_count[GREEN] = 4 /\ IsPresent(YELLOW)
    /\ game_state = ROLLING_DICE /\ current_player = YELLOW
    /\ EventsOfType(events, PLAYER_TURN_CHANGED) =
          <<Ev(PLAYER_TURN_CHANGED, YELLOW, <<YELLOW>>, <<>>)>>

\* The turn went past an absent colour: RED has moved on a 6 with GREEN
\* gone, and the turn has gone to YELLOW.
C18_TurnSkipsAbsent ==
    /\ call.op = "move_piece" /\ ret.ok /\ call.color = RED
    /\ dice_value = 6
    /\ ~ IsPresent(GREEN) /\ IsPresent(YELLOW)
    /\ game_state = ROLLING_DICE /\ current_player = YELLOW

\* The turn came back to the only player left: RED has moved with the other
\* three colours gone and is to roll again.
C18_TurnReturnsToMover ==
    /\ call.op = "move_piece" /\ ret.ok /\ call.color = RED
    /\ players = <<RED>>
    /\ game_state = ROLLING_DICE /\ current_player = RED

\* A GAME_OVER event comes only from the successful move that finishes the
\* mover's fourth piece, and names the mover as winner.
GameOverOnlyOnWinningMove ==
    EventsOfType(events', EV_GAME_OVER) # <<>> =>
       /\ IsCall("move_piece") /\ ret'.ok
       /\ home_count[call'.color] = 3 /\ home_count'[call'.color] = 4
       /\ EventsOfType(events', EV_GAME_OVER) =
             <<Ev(EV_GAME_OVER, call'.color, <<call'.color>>, <<>>)>>

\* C19: between two calls of reset_game at most one GAME_OVER event is
\* emitted, and a GAME_OVER event is emitted only by the successful move in
\* which the mover's fourth piece becomes finished, naming the mover as
\* winner.
C19_OneGameOver ==
    [][game_overs' <= 1 /\ GameOverOnlyOnWinningMove]_vars

\* The part of C19 the code keeps: no operation but the winning move emits
\* GAME_OVER.
C19_GameOverSource == [][GameOverOnlyOnWinningMove]_vars

\* C20: in phase GAME_OVER every roll_dice returns 0, every move_piece of any
\* colour and piece index returns failure, get_valid_moves is empty for
\* every colour, and these calls leave the phase, the current player, the
\* dice value and all pieces unchanged.
C20_NothingAfterGameOver ==
    [][(game_state = GAME_OVER
           /\ call'.op \in {"roll_dice", "move_piece", "get_valid_moves"}) =>
          /\ Returned
          /\ IsCall("roll_dice") => ret'.val = 0
          /\ IsCall("move_piece") => ~ ret'.ok
          /\ IsCall("get_valid_moves") => ret'.moves = <<>>
          /\ UNCHANGED game]_vars

\* C20 witness: after BLUE's win the winner, still the current player, has
\* asked to move a piece and been refused.
C20_Witness ==
    /\ game_state = GAME_OVER /\ home_count[BLUE] = 4
    /\ call.op = "move_piece" /\ call.color = current_player
    /\ call.piece \in PieceIndex
    /\ ~ ret.ok /\ ~ ret.exc

\* C21: reset_game, in any reachable state, puts every piece of every
\* present player at base with is_home and is_safe cleared, sets every
\* home_count and the dice value to 0, and keeps the players and the
\* listener list; with fewer than 4 players the phase becomes
\* WAITING_FOR_PLAYERS with no current player, with 4 it becomes ROLLING_DICE
\* with RED to play and one GAME_STARTED event is emitted.
C21_Reset ==
    [][IsCall("reset_game") =>
          /\ Returned
          /\ \A k \in 1..Len(players) : \A i \in PieceIndex :
                pieces'[players[k]][i] =
                   [position |-> HomeBase, is_home |-> FALSE, is_safe |-> FALSE]
          /\ \A c \in Colors : home_count'[c] = 0
          /\ dice_value' = 0
          /\ players' = players
          /\ event_listeners' = event_listeners
          /\ IF Len(players) < 4
             THEN /\ game_state' = WAITING_FOR_PLAYERS
                  /\ current_player' = NoPlayer
             ELSE /\ game_state' = ROLLING_DICE
                  /\ current_player' = RED
                  /\ events' = <<Ev(GAME_STARTED, RED, players, <<>>)>>]_vars

\* C21 witness: a game that had ended and been started again by a player
\* leaving and joining has been reset by reset_game, with 4 players and a
\* listener subscribed.
C21_Witness ==
    /\ call.op = "reset_game"
    /\ Scenarios[scenario] = Rematch /\ ~ InScript
    /\ Len(players) = 4 /\ event_listeners # <<>>
    /\ game_state = ROLLING_DICE /\ current_player = RED
    /\ EventsOfType(events, GAME_STARTED) # <<>>

\* reset_game with a player gone: the game waits for players again.
C21_ResetWhileShort ==
    /\ call.op = "reset_game"
    /\ Len(players) = 3
    /\ Scenarios[scenario] = Contact
    /\ game_state = WAITING_FOR_PLAYERS /\ current_player = NoPlayer

\* What get_game_state returns for a new game right after the add_player that
\* made the colours of pl, joined in that order, four
StartSnapshot(pl) ==
    [game_state |-> ROLLING_DICE,
     current_player |-> RED,
     dice_value |-> 0,
     players |-> [k \in 1..4 |->
        [color |-> pl[k],
         home_count |-> 0,
         has_won |-> FALSE,
         pieces |-> [n \in 1..NumPieces |->
            [piece_id |-> n - 1, position |-> HomeBase,
             is_home |-> FALSE, is_safe |-> FALSE]]]]]

\* C22: with 4 players, the snapshot right after reset_game is the snapshot
\* of a new game right after its 4th add_player, and a second reset_game
\* right after the first gives the same snapshot again.
C22_ResetToStart ==
    /\ []((call.op = "reset_game" /\ Len(players) = 4) =>
             Snapshot = StartSnapshot(players))
    /\ []((Scenarios[scenario] = Joined /\ ~ InScript /\ budget = MaxFree) =>
             /\ call.op = "add_player" /\ ret.ok
             /\ Snapshot = StartSnapshot(players))
    /\ [][(call.op = "reset_game" /\ IsCall("reset_game")) =>
             Snapshot' = Snapshot]_vars

\* C22 witness: after the Contact opening and one more operation, reset_game
\* has been called with 4 players and left the snapshot of a new game.
C22_Witness ==
    /\ call.op = "reset_game"
    /\ Len(players) = 4
    /\ Scenarios[scenario] = Contact /\ budget < MaxFree - 1
    /\ Snapshot = StartSnapshot(players)

\* Two calls of reset_game in a row never happen (refuted: they do).
C22_NoDoubleReset == [][~ (call.op = "reset_game" /\ IsCall("reset_game"))]_vars

\* The case of C23: get_valid_moves(RED) has just been answered in a newly
\* started game of 4 players, all pieces at base, in which RED rolled a 6.
C23_Case ==
    /\ call.op = "get_valid_moves" /\ call.color = RED
    /\ Len(players) = 4
    /\ game_state = MOVING_PIECE /\ current_player = RED /\ dice_value = 6
    /\ \A c \in Colors, i \in PieceIndex : pieces[c][i].position = HomeBase

\* C23 as stated: in that case the list holds exactly one entry, piece 0
\* with destination RED's start cell 0.
C23_OneEntry == C23_Case => ret.moves = <<<<0, 0>>>>

\* C23 as the code has it: in that case the list holds four entries, one for
\* each of RED's pieces in index order, each with destination RED's start
\* cell 0.
C23_FourEntries ==
    C23_Case =>
       /\ ~ ret.exc
       /\ ret.moves = [n \in 1..4 |-> <<n - 1, 0>>]

\* C23 witness: the four colours have joined, RED has rolled a 6 and asked
\* for its legal moves.
C23_Witness ==
    /\ C23_Case
    /\ Len(ret.moves) = 4
    /\ Scenarios[scenario] = Joined

\* The PIECE_MOVED events of the last call, as <<piece, old, new, dice>>
Moves == [n \in 1..Len(EventsOfType(events, PIECE_MOVED)) |->
            EventsOfType(events, PIECE_MOVED)[n].nums]

\* C24: a RED piece on the track at 49 that moves on a 1 ends on 50, the
\* first cell of RED's home stretch, and every RED piece on the track at p
\* that moves on a dice d with p + d >= 50 ends on a cell of RED's home
\* stretch 50..55.
C24_RedHomeEntry ==
    (call.op = "move_piece" /\ ret.ok /\ call.color = RED) =>
       \A n \in 1..Len(Moves) :
          LET old == Moves[n][2]
              new == Moves[n][3]
              dice == Moves[n][4]
          IN (old >= 0 /\ old + dice >= 50) =>
                /\ pieces[RED][call.piece].position = new
                /\ new \in home_stretch_positions(RED)
                /\ (old = 49 /\ dice = 1) => new = 50

\* C24 witness: a RED piece has moved from 49 on a 1 and stands on 50.
C24_Witness ==
    /\ call.op = "move_piece" /\ ret.ok /\ call.color = RED
    /\ Moves = <<<<call.piece, 49, 50, 1>>>>
    /\ pieces[RED][call.piece].position = 50

\* A RED piece has moved from 49 on a 6, past the end of the track, and
\* stands on 53.
C24_PastTrackEnd ==
    /\ call.op = "move_piece" /\ ret.ok /\ call.color = RED
    /\ Moves = <<<<call.piece, 49, 53, 6>>>>

\* Colour c is among the colours of pl
Among(pl, c) == \E k \in 1..Len(pl) : pl[k] = c

\* C25: add_player succeeds exactly when the colour is not present, and the
\* colour is then present with 4 pieces at base; remove_player succeeds
\* exactly when the colour is present, and the colour is then absent; a
\* failed add or remove changes nothing; the players never number more than
\* 4 and no colour is present twice.
C25_AddRemove ==
    [][/\ IsCall("add_player") =>
             LET c == call'.color IN
             /\ Returned
             /\ ret'.ok <=> ~ Among(players, c)
             /\ ret'.ok =>
                   /\ Among(players', c)
                   /\ \A i \in PieceIndex :
                         pieces'[c][i] =
                            [position |-> HomeBase, is_home |-> FALSE, is_safe |-> FALSE]
                   /\ \A d \in Colors \ {c} : Among(players', d) <=> Among(players, d)
             /\ ~ ret'.ok => UNCHANGED game /\ events' = <<>>
       /\ IsCall("remove_player") =>
             LET c == call'.color IN
             /\ Returned
             /\ ret'.ok <=> Among(players, c)
             /\ ret'.ok =>
                   /\ ~ Among(players', c)
                   /\ \A d \in Colors \ {c} : Among(players', d) <=> Among(players, d)
             /\ ~ ret'.ok => UNCHANGED game /\ events' = <<>>
       /\ Len(players') <= 4
       /\ \A j, k \in 1..Len(players') : players'[j] = players'[k] => j = k]_vars

\* C25 witness: add_player for a colour that is already in a game of 4 has
\* been refused.
C25_Witness ==
    /\ call.op = "add_player" /\ ~ ret.ok /\ ~ ret.exc
    /\ Len(players) = 4 /\ IsPresent(call.color)
    /\ events = <<>>

\* remove_player for a colour that is not present has been refused.
C25_RemoveAbsent ==
    /\ call.op = "remove_player" /\ ~ ret.ok /\ ~ ret.exc
    /\ ~ IsPresent(call.color) /\ Len(players) = 3

\* C26: remove_player called once the game has started (phase ROLLING_DICE,
\* MOVING_PIECE or GAME_OVER) fails and leaves the players, the phase and the
\* current player unchanged, so a started game always has exactly 4 players
\* and its current player is one of them.
C26_RemoveOnlyBeforeStart ==
    [][/\ (IsCall("remove_player") /\ game_state # WAITING_FOR_PLAYERS) =>
             /\ ~ ret'.ok
             /\ UNCHANGED <<players, game_state, current_player>>
       /\ game_state' # WAITING_FOR_PLAYERS =>
             /\ Len(players') = 4
             /\ Among(players', current_player')]_vars

\* C27: no operation raises: every call of add_player, remove_player,
\* roll_dice, get_valid_moves, move_piece, get_game_state and reset_game
\* returns normally.
C27_NoOperationRaises == ~ ret.exc

\* An exception leaves an operation only from the player lookup of
\* get_valid_moves or move_piece for a colour that is not present.
C27_RaisesOnlyForAbsent ==
    ret.exc => /\ call.op \in {"get_valid_moves", "move_piece"}
               /\ ~ IsPresent(call.color)
               /\ current_player = call.color /\ game_state = MOVING_PIECE

C28_SubscribedTwice ==
    /\ call.op = "move_piece" /\ ret.ok /\ game_state = GAME_OVER
    /\ event_listeners = <<EVENT_LISTENER, EVENT_LISTENER>>
    /\ Len(received) = 2 * Len(events)
    /\ received[1] = received[2]

\* With no listener subscribed a move has been made and has emitted events.
C28_NoListener ==
    /\ call.op = "move_piece" /\ ret.ok
    /\ event_listeners = <<>> /\ events # <<>> /\ received = <<>>

\* C29: get_game_state and get_valid_moves change nothing (phase, current
\* player, dice value, players, pieces, home counts, listeners) and emit no
\* event; get_game_state reports the current phase, the current player
\* (none while waiting for players), the dice value and, for each present
\* player, its home_count, whether it has won and index, position, is_home
\* and is_safe of its four pieces.
C29_PureQueries ==
    [][(IsCall("get_game_state") \/ IsCall("get_valid_moves")) =>
          /\ UNCHANGED <<game, event_listeners>>
          /\ events' = <<>>
          /\ IsCall("get_game_state") =>
                LET snap == ret'.snap IN
                /\ Returned
                /\ snap.game_state = game_state
                /\ snap.current_player = current_player
                /\ game_state = WAITING_FOR_PLAYERS => snap.current_player = NoPlayer
                /\ snap.dice_value = dice_value
                /\ Len(snap.players) = Len(players)
                /\ \A k \in 1..Len(players) :
                      LET c == players[k]
                          pl == snap.players[k]
                      IN /\ pl.color = c
                         /\ pl.home_count = home_count[c]
                         /\ pl.has_won <=>
                               (\A i \in PieceIndex : pieces[c][i].is_home)
                         /\ Len(pl.pieces) = 4
                         /\ \A i \in PieceIndex :
                               pl.pieces[i + 1] =
                                  [piece_id |-> i,
                                   position |-> pieces[c][i].position,
                                   is_home |-> pieces[c][i].is_home,
                                   is_safe |-> pieces[c][i].is_safe]]_vars

\* C29 witness: get_game_state has been called after the game ended and
\* reports the phase and the winner.
C29_Witness ==
    /\ call.op = "get_game_state" /\ ~ ret.exc
    /\ game_state = GAME_OVER
    /\ ret.snap.game_state = GAME_OVER
    /\ \E k \in 1..Len(ret.snap.players) :
          /\ ret.snap.players[k].has_won
          /\ ret.snap.players[k].color = current_player

\* get_game_state has been called while the game waits for players and
\* reports no current player.
C29_SnapshotWhileWaiting ==
    /\ call.op = "get_game_state"
    /\ game_state = WAITING_FOR_PLAYERS
    /\ ret.snap.current_player = NoPlayer
    /\ Len(ret.snap.players) \in 1..3

\* get_valid_moves has been called and has listed a move.
C29_MovesListed ==
    /\ call.op = "get_valid_moves" /\ ret.moves # <<>>

\* C30: the events of a successful move are, in this order, PIECE_HOME if
\* and only if the piece finished, PIECE_CAPTURED if and only if a piece was
\* captured, one PIECE_MOVED with the old position, the new position and the
\* dice value, and then GAME_OVER if the mover has now won, with the turn not
\* advanced, or else PLAYER_TURN_CHANGED; there is no INVALID_MOVE.
C30_MoveEvents ==
    [][(IsCall("move_piece") /\ ret'.ok) =>
          LET c == call'.color
              i == call'.piece
              finished == pieces'[c][i].is_home /\ ~ pieces[c][i].is_home
              captured == \E ci \in (Colors \X PieceIndex) \ {<<c, i>>} :
                             pieces'[ci[1]][ci[2]] # pieces[ci[1]][ci[2]]
              won == \A j \in PieceIndex : pieces'[c][j].is_home
              types == [n \in 1..Len(events') |-> events'[n].type]
              moved == EventsOfType(events', PIECE_MOVED)
          IN /\ types =
                   (IF finished THEN <<PIECE_HOME>> ELSE <<>>)
                   \o (IF captured THEN <<PIECE_CAPTURED>> ELSE <<>>)
                   \o <<PIECE_MOVED>>
                   \o (IF won THEN <<EV_GAME_OVER>> ELSE <<PLAYER_TURN_CHANGED>>)
             /\ moved[1].nums = <<i, pieces[c][i].position,
                                  pieces'[c][i].position, dice_value>>
             /\ won => /\ game_state' = GAME_OVER
                       /\ current_player' = current_player]_vars

\* C30 witness: a move has finished the mover's piece and captured a piece
\* of another colour on the same cell, and has emitted PIECE_HOME,
\* PIECE_CAPTURED, PIECE_MOVED and PLAYER_TURN_CHANGED in that order.
C30_Witness ==
    /\ call.op = "move_piece" /\ ret.ok
    /\ Len(events) = 4
    /\ events[1].type = PIECE_HOME /\ events[2].type = PIECE_CAPTURED
    /\ events[3].type = PIECE_MOVED /\ events[4].type = PLAYER_TURN_CHANGED

\* The winning move has emitted PIECE_HOME, PIECE_MOVED and GAME_OVER in that
\* order and no PLAYER_TURN_CHANGED.
C30_WinningMove ==
    /\ call.op = "move_piece" /\ ret.ok /\ game_state = GAME_OVER
    /\ Len(events) = 3
    /\ events[1].type = PIECE_HOME /\ events[2].type = PIECE_MOVED
    /\ events[3].type = EV_GAME_OVER

\* C31: every colour's pieces go round the whole track before they leave
\* it: a GREEN, YELLOW or BLUE piece on the track at p that moves on a dice
\* d with p + d >= 52 goes on to track cell (p + d) mod 52 and does not
\* enter its home stretch.
C31_LapBeforeHomeStretch ==
    (call.op = "move_piece" /\ ret.ok /\ call.color \in {GREEN, YELLOW, BLUE}) =>
       \A n \in 1..Len(Moves) :
          LET old == Moves[n][2]
              dice == Moves[n][4]
          IN (old >= 0 /\ old + dice >= board_size) =>
                /\ pieces[call.color][call.piece].position = (old + dice) % board_size
                /\ ~ pieces[call.color][call.piece].is_home

\* A GREEN piece that had gone from its start cell 13 to cell 50 has moved
\* on a 2 and is finished on 63, the first cell of GREEN's home stretch,
\* without having been on the cells 0..12.
C31_GreenLeavesAtFiftyOne ==
    /\ call.op = "move_piece" /\ ret.ok /\ call.color = GREEN
    /\ Moves = <<<<call.piece, 50, 63, 2>>>>
    /\ pieces[GREEN][call.piece].is_home

\* What C32 says of piece i of colour c, finished before the call, as long
\* as the call is one that keeps the piece in the game
Frozen(c, i) ==
    /\ pieces'[c][i].position = pieces[c][i].position
    /\ pieces'[c][i].is_home
    /\ (IsCall("get_valid_moves") /\ call'.color = c) =>
          \A n \in 1..Len(ret'.moves) : ret'.moves[n][1] # i
    /\ (IsCall("move_piece") /\ call'.color = c /\ call'.piece = i) =>
          ~ ret'.ok /\ ~ ret'.exc

\* C32: a finished piece is frozen: from the move in which it finishes until
\* the next reset_game its position and its is_home flag do not change, no
\* get_valid_moves lists it, every move_piece on it fails, and no move of
\* another colour onto its cell number captures or resets it.
C32_FinishedPieceFrozen ==
    [][\A c \in Colors, i \in PieceIndex :
          (pieces[c][i].is_home /\ ~ IsCall("reset_game")) => Frozen(c, i)]_vars

\* C32 for the pieces of the colours no remove_player takes out of the game:
\* what holds of the code.
C32_FrozenWhilePresent ==
    [][\A c \in Colors, i \in PieceIndex :
          (pieces[c][i].is_home /\ ~ IsCall("reset_game")
              /\ ~ (IsCall("remove_player") /\ call'.color = c)) => Frozen(c, i)]_vars

\* A GREEN piece has moved onto track cell 50 where a finished RED piece
\* stands, and the RED piece is still there, finished.
C32_LandedOnFinished ==
    /\ call.op = "move_piece" /\ ret.ok /\ call.color = GREEN
    /\ pieces[GREEN][call.piece].position = 50
    /\ \E j \in PieceIndex : pieces[RED][j].position = 50 /\ pieces[RED][j].is_home

\* A colour with a finished piece has been taken out of the started game.
C32_FinishedPieceRemoved ==
    /\ call.op = "remove_player" /\ ret.ok
    /\ game_state # WAITING_FOR_PLAYERS
    /\ game_overs = 0
    /\ \E n \in 1..Len(players) : home_count[players[n]] > 0

\* The first listener of ls that raises when called with event e
FirstRaising(ls, e) ==
    CHOOSE k \in 1..Len(ls) :
        /\ raises(ls[k], e)
        /\ \A j \in 1..(k - 1) : ~ raises(ls[j], e)

\* The last call has emitted an event with which a subscribed listener raises
Interrupted(ls, evs) ==
    evs # <<>> /\ \E k \in 1..Len(ls) : raises(ls[k], evs[Len(evs)])

\* C33: when a listener raises while it handles an event, the engine does
\* not catch it: the call raises, the listeners subscribed after that
\* listener are not called with the event, and the rest of the operation
\* does not run, while what the operation changed before that emission
\* stays.  For a move: a raise at PIECE_HOME leaves the mover on its
\* destination, finished and counted, with no capture made and the is_safe
\* flag as it was; a raise at PIECE_CAPTURED leaves the captured piece at
\* base and the mover's is_safe flag as it was; a raise at PIECE_MOVED leaves
\* the is_safe flag updated; in the three cases no later event is emitted,
\* the phase is still MOVING_PIECE and the turn has not advanced.
C33_ListenerRaises ==
    [][Interrupted(event_listeners, events') =>
          LET ls == event_listeners
              m == Len(ls)
              last == Len(events')
              e == events'[last]
              k == FirstRaising(ls, e)
              c == call'.color
              i == call'.piece
              others == (Colors \X PieceIndex) \ {<<c, i>>}
              changed == {ci \in others : pieces'[ci[1]][ci[2]] # pieces[ci[1]][ci[2]]}
          IN /\ ret'.exc
             /\ Len(received') = (last - 1) * m + k
             /\ \A j \in 1..k :
                   received'[(last - 1) * m + j] = [to |-> ls[j], event |-> e]
             /\ \A n \in 1..(last - 1), j \in 1..m :
                   received'[(n - 1) * m + j] = [to |-> ls[j], event |-> events'[n]]
             /\ e.type \in {PIECE_HOME, PIECE_CAPTURED, PIECE_MOVED} =>
                   /\ IsCall("move_piece")
                   /\ pieces'[c][i].position = C7_Entries(c, i)[1][2]
                   /\ game_state' = MOVING_PIECE
                   /\ UNCHANGED <<current_player, dice_value, players>>
                   /\ EventsOfType(events', PLAYER_TURN_CHANGED) = <<>>
                   /\ EventsOfType(events', EV_GAME_OVER) = <<>>
             /\ e.type = PIECE_HOME =>
                   /\ events' = <<e>>
                   /\ pieces'[c][i].is_home
                   /\ home_count' = [home_count EXCEPT ![c] = @ + 1]
                   /\ pieces'[c][i].is_safe = pieces[c][i].is_safe
                   /\ changed = {}
             /\ e.type = PIECE_CAPTURED =>
                   /\ EventsOfType(events', PIECE_MOVED) = <<>>
                   /\ pieces'[c][i].is_safe = pieces[c][i].is_safe
                   /\ Cardinality(changed) = 1
                   /\ \A ci \in changed : pieces'[ci[1]][ci[2]] = NewPiece
             /\ e.type = PIECE_MOVED =>
                   pieces'[c][i].is_safe <=> pieces'[c][i].position \in safe_positions
             /\ e.type = DICE_ROLLED =>
                   /\ dice_value' = e.nums[1]
                   /\ game_state' = MOVING_PIECE
             /\ e.type = GAME_STARTED =>
                   /\ game_state' = ROLLING_DICE /\ current_player' = RED
                   /\ IsCall("add_player") => players' = Append(players, c)
             /\ e.type = INVALID_MOVE => UNCHANGED game
             /\ e.type = PLAYER_TURN_CHANGED =>
                   game_state' = ROLLING_DICE /\ current_player' = e.player
             /\ e.type = EV_GAME_OVER =>
                   game_state' = GAME_OVER /\ has_won(pieces'[e.player])]_vars

\* C33 witness: a listener has raised at the PIECE_HOME of RED's move from 49
\* to 50.  The two listeners before it were called, the one after it was
\* not; the RED piece is finished and counted, the unfinished GREEN piece on
\* 50 has not been captured, and the phase is still MOVING_PIECE with RED to
\* move.
C33_Witness ==
    /\ call.op = "move_piece" /\ call.color = RED /\ ret.exc
    /\ event_listeners =
          <<EVENT_LISTENER, HANDLE_EVENT, RaisesOn(PIECE_HOME), EVENT_LISTENER>>
    /\ events = <<Ev(PIECE_HOME, RED, <<RED>>, <<call.piece>>)>>
    /\ Len(received) = 3 /\ received[3].to = RaisesOn(PIECE_HOME)
    /\ pieces[RED][call.piece].position = 50 /\ pieces[RED][call.piece].is_home
    /\ home_count[RED] = 1
    /\ \E j \in PieceIndex : pieces[GREEN][j].position = 50 /\ ~ pieces[GREEN][j].is_home
    /\ game_state = MOVING_PIECE /\ current_player = RED

\* A listener has raised at the PIECE_CAPTURED of a move: the captured piece
\* is at base, PIECE_MOVED was not emitted and the turn has not advanced.
C33_RaisedAtCapture ==
    /\ call.op = "move_piece" /\ ret.exc
    /\ events # <<>> /\ events[Len(events)].type = PIECE_CAPTURED
    /\ game_state = MOVING_PIECE /\ current_player = call.color

\* A listener has raised at the GAME_OVER of the winning move: the phase is
\* GAME_OVER.
C33_RaisedAtGameOver ==
    /\ call.op = "move_piece" /\ ret.exc
    /\ events # <<>> /\ events[Len(events)].type = EV_GAME_OVER
    /\ game_state = GAME_OVER

\* After a raise at PIECE_MOVED the same player has moved again on the same
\* dice value.
C33_MovedTwice ==
    /\ call.op = "move_piece" /\ ret.exc
    /\ events # <<>> /\ events[Len(events)].type = PIECE_MOVED
    /\ budget = MaxFree - 3
    /\ \E j \in PieceIndex \ {call.piece} :
          pieces[call.color][j].position \notin {HomeBase, 44, 49}

NoLegalMove ==
    /\ game_state = MOVING_PIECE
    /\ IsPresent(current_player)
    /\ valid_moves_of(pieces, dice_value, current_player) = <<>>

\* C35: while the phase is MOVING_PIECE and the current player has no legal
\* move, every roll_dice returns 0 and every move_piece fails, and both
\* leave the phase, the current player, the dice value, the players and all
\* pieces as they are (so the current player has no legal move afterwards
\* either).
C35_Stuck ==
    [][((IsCall("roll_dice") \/ IsCall("move_piece")) /\ NoLegalMove)
         => /\ IsCall("roll_dice") => ret' = RetInt(0)
            /\ IsCall("move_piece") => ret' = RetBool(FALSE)
            /\ UNCHANGED game]_vars

\* Right after the first roll of a game, not a 6, with every piece at base:
\* the move of the current player's piece has just been refused, after a
\* second roll had returned 0.
C35_Witness ==
    /\ NoLegalMove
    /\ Openings[scenario] = Joined
    /\ budget = MaxFree - 3
    /\ \A c \in Colors, i \in PieceIndex : pieces[c][i].position = -1
    /\ dice_value \in 1..5
    /\ call = Call("move_piece", current_player, 0)
    /\ ret = RetBool(FALSE)
    /\ events = <<Ev(INVALID_MOVE, current_player, <<>>, <<0, dice_value>>)>>

\* The same position with the second roll just refused.
C35_RollRefused ==
    /\ NoLegalMove
    /\ Openings[scenario] = Joined
    /\ budget = MaxFree - 2
    /\ call.op = "roll_dice" /\ ret = RetInt(0)
    /\ dice_value \in 1..5

\* All four pieces of colour c are finished.
AllFinished(c) == \A i \in PieceIndex : pieces[c][i].is_home

Winners == {c \in Colors : IsPresent(c) /\ AllFinished(c)}

C36_Phases ==
    /\ game_state = GAME_OVER <=> Winners # {}
    /\ game_state = GAME_OVER => Cardinality(Winners) = 1
    /\ game_state \in {ROLLING_DICE, MOVING_PIECE} =>
          /\ IsPresent(current_player)
          /\ \E i \in PieceIndex : ~ pieces[current_player][i].is_home

\* A step in which _next_turn has run: the call was _next_turn itself, or a
\* move that was made and did not end the game.
TurnAdvanced ==
    \/ IsCall("_next_turn") /\ current_player # NoPlayer
    \/ IsCall("move_piece") /\ ret'.ok /\ game_state' # GAME_OVER

C36_TurnOrder ==
    TurnAdvanced =>
        /\ current_player' = player_order[(IndexOf(current_player) % 4) + 1]
        /\ current_player' # current_player

\* C36: as long as no player is removed, the phase is GAME_OVER exactly when
\* some player has all four pieces finished, and then exactly one player
\* has; in the phases ROLLING_DICE and MOVING_PIECE nobody has won and the
\* current player has an unfinished piece, and whenever the turn advances it
\* goes to the very next colour in player_order, never past a colour and
\* never back to the player who moved.
C36_OneWinner == [](C36_Phases) /\ [][C36_TurnOrder]_vars

\* A player has just won by a move made after the opening, the only winner.
C36_Witness ==
    /\ ~ InScript
    /\ scenario \in NoRemoveScenarios
    /\ game_state = GAME_OVER
    /\ call.op = "move_piece" /\ ret.ok
    /\ Winners = {call.color}

\* The turn has just passed from GREEN to YELLOW by a move that captured a
\* piece and ended no game.
C36_TurnPassedOn ==
    /\ ~ InScript
    /\ scenario \in NoRemoveScenarios
    /\ call = Call("move_piece", GREEN, call.piece) /\ ret.ok
    /\ EventsOfType(events, PIECE_CAPTURED) # <<>>
    /\ game_state = ROLLING_DICE
    /\ current_player = YELLOW

C37_FinishedInside ==
    /\ call.op = "move_piece" /\ ret.ok /\ call.color = GREEN
    /\ pieces[GREEN][call.piece].is_home
    /\ pieces[GREEN][call.piece].position
          \in (home_position(GREEN) + 1) .. (home_position(GREEN) + HomeStretchLen - 2)

\* The unfinished pieces on the track
InTransit(c, i) ==
    /\ ~ pieces[c][i].is_home
    /\ pieces[c][i].position \in 0 .. (board_size - 1)

C38_Landing ==
    \A c \in Colors, i \in PieceIndex :
        InTransit(c, i) =>
            /\ pieces[c][i].position >= start_position(c)
            /\ \A d \in DiceValues :
                  pieces[c][i].position + d >= board_size =>
                     /\ should_enter_home_stretch(c, pieces[c][i], pieces[c][i].position + d)
                     /\ calculate_new_position(c, pieces[c][i], d)
                           = home_position(c) + (pieces[c][i].position + d - board_size)

C38_Forward ==
    (IsCall("move_piece") /\ ret'.ok) =>
        /\ pieces'[call'.color][call'.piece].position
              > pieces[call'.color][call'.piece].position
        /\ pieces[call'.color][call'.piece].position + dice_value >= board_size =>
              pieces'[call'.color][call'.piece].position
                 = home_position(call'.color)
                    + (pieces[call'.color][call'.piece].position + dice_value - board_size)

C38_Witness ==
    \E c \in {YELLOW, BLUE}, i \in PieceIndex :
        /\ InTransit(c, i)
        /\ pieces[c][i].position + 6 >= board_size
        /\ game_state = MOVING_PIECE /\ current_player = c

C39_OwnPiecesApart ==
    \A c \in Colors, i \in PieceIndex :
        \A j \in (i + 1) .. (NumPieces - 1) :
            (/\ pieces[c][i].position = pieces[c][j].position
             /\ InTransit(c, i) /\ InTransit(c, j))
            => pieces[c][i].position = start_position(c)

\* A piece has just left base on a 6 and stands on its colour's start cell
\* together with another unfinished piece of the colour.
C39_Witness ==
    /\ call.op = "move_piece" /\ ret.ok
    /\ Moves = <<<<call.piece, HomeBase, start_position(call.color), 6>>>>
    /\ \E j \in PieceIndex \ {call.piece} :
          /\ InTransit(call.color, j)
          /\ pieces[call.color][j].position = start_position(call.color)

\* The move of a piece onto the cell of another unfinished piece of its
\* colour, off the start cell, has just been rejected.
C39_MoveOntoOwnRejected ==
    /\ call.op = "move_piece" /\ ~ ret.ok
    /\ EventsOfType(events, INVALID_MOVE) # <<>>
    /\ call.piece \in PieceIndex
    /\ InTransit(call.color, call.piece)
    /\ \E j \in PieceIndex \ {call.piece} :
          /\ InTransit(call.color, j)
          /\ pieces[call.color][j].position
                = pieces[call.color][call.piece].position + dice_value

\* The pieces of colours other than c that a step has changed
ChangedOpponents(c) ==
    {a \in (Colors \ {c}) \X PieceIndex : pieces'[a[1]][a[2]] # pieces[a[1]][a[2]]}

\* C40: a move that is made changes the moved piece, the mover's home_count
\* (by one more exactly if the piece is finished by the move), at most one
\* piece of another colour, which was unfinished on the destination and is
\* back at base, the phase and the current player; the dice value, the
\* players, the listeners, every other piece and every other home_count are
\* as before.
C40_MoveFrame ==
    [][(IsCall("move_piece") /\ ret'.ok) =>
         LET c == call'.color
             i == call'.piece
         IN /\ dice_value' = dice_value
            /\ players' = players
            /\ event_listeners' = event_listeners
            /\ \A j \in PieceIndex \ {i} : pieces'[c][j] = pieces[c][j]
            /\ home_count'[c] =
                  home_count[c] + (IF pieces'[c][i].is_home THEN 1 ELSE 0)
            /\ \A o \in Colors \ {c} : home_count'[o] = home_count[o]
            /\ Cardinality(ChangedOpponents(c)) <= 1
            /\ \A a \in ChangedOpponents(c) :
                  /\ pieces'[a[1]][a[2]] = NewPiece
                  /\ ~ pieces[a[1]][a[2]].is_home
                  /\ pieces[a[1]][a[2]].position = pieces'[c][i].position
                  /\ EventsOfType(events', PIECE_CAPTURED) # <<>>
            /\ game_state' \in {ROLLING_DICE, GAME_OVER}]_vars

\* A move has just captured a piece: the captured piece is back at base and
\* the home_count of its colour, which has a finished piece, is what it was.
C40_Witness ==
    /\ call.op = "move_piece" /\ ret.ok
    /\ EventsOfType(events, PIECE_CAPTURED) # <<>>
    /\ LET victim == EventsOfType(events, PIECE_CAPTURED)[1].colors[1]
       IN /\ home_count[victim] >= 1
          /\ \E i \in PieceIndex : pieces[victim][i].is_home
          /\ \E i \in PieceIndex : pieces[victim][i] = NewPiece
    /\ dice_value \in DiceValues

\* A move has just finished a piece without a capture: the mover's
\* home_count has gone up and the turn has passed on.
C40_FinishedNoCapture ==
    /\ call.op = "move_piece" /\ ret.ok
    /\ EventsOfType(events, PIECE_CAPTURED) = <<>>
    /\ pieces[call.color][call.piece].is_home
    /\ home_count[call.color] >= 1
    /\ game_state = ROLLING_DICE
    /\ current_player # call.color

====
